---- MODULE Spec2Model ----
(***************************************************************************)
(* MitraVerify evidence retrieval core: the FAISS vector index             *)
(* (backend/models/vector_search.py) and the cache backends                *)
(* (backend/models/caching.py), as state machines.                         *)
(*                                                                         *)
(* Vectors are abstracted to one integer coordinate plus their dimension;  *)
(* a metadata record and an external id are abstracted to the number of    *)
(* the document they describe.  Positions are 0-based as in the code;      *)
(* TLA+ sequences are 1-based, so position p is element p + 1.             *)
(***************************************************************************)
EXTENDS Integers, Sequences, FiniteSets, TLC

\* ------------------------------------------------------------- bounds
MaxVecs == 2       \* vectors the index may hold

Threads == {1, 2}
Dims == {1, 2}       \* vector dimensions
Coords == {1, 2}     \* documents, and the coordinate of a document's vector
TopKs == {1, 2}      \* values of top_k
BatchSizes == {1, 2} \* vectors in one add_vectors call

\* The distance faiss reports for a padded result slot (label -1).
FLT_MAX == 1000

MaxSize == 2       \* largest configured max_size of a cache
MaxTime == 2       \* the clock runs from 0 to MaxTime
MaxAccess == 2     \* accesses counted per cache entry
MaxGets == 3       \* calls of CacheManager.get, and of CacheManager.set
MaxPassages == 2   \* passages handed to CrossEncoderReranker.rerank

CacheTypes == {"memory", "sqlite"}
ManagerTypes == CacheTypes \cup {"multi_level"}   \* 'type' of a CacheManager's configuration
CacheKeys == {"a", "b", "c"}
CacheValues == {1, 2}
DefaultTtls == {1}   \* values of default_ttl
TtlArgs == {<<>>, <<-1>>, <<0>>, <<1>>, <<2>>}   \* the ttl argument of set: None or a number

VARIABLES
  \* FAISSVectorSearch fields
  index, metadata, id_to_idx, dimension,
  \* the two persisted files and the environment
  index_file, metadata_file, faiss_installed,
  \* per-thread control state: position, arguments, locals, return value
  pc, call, loc, ret,
  \* history variables (not read by any action's guard or effect on the program state)
  configured, persisted, crashedInSave, tornByCrash, suppliedIds, totalAdded,
  addsOnly, cands, disturbed,
  \* a cache backend: its class, its configuration, its entries, its last return
  cache_type, max_size, default_ttl, _cache, cache_ret,
  \* time.time()
  now,
  \* the second tier of a MultiLevelCache; CacheManager.stats; each caller's
  \* position in CacheManager.get; the CacheManager.get calls that have returned
  l2_cache, stats, mgr, gets_done,
  \* each caller's position in SQLiteCache.set: its arguments and the row count
  \* it has read
  setters,
  \* a HybridRetriever: which of the two classes it is, whether its scorer is
  \* loaded, and the last call made on it with what the call returned
  hybrid_shape, cross_encoder, hybrid_ret,
  \* the last direct call of CrossEncoderReranker.rerank with what it returned
  rerank_ret,
  \* the last add_evidence or get_evidence_by_id call with what it returned
  evidence_ret,
  \* the positions of the stored metadata records that a query has written
  \* final_rank and ranking_method into
  annotated,
  \* a TextEmbeddingEngine: whether its model is loaded, its embedding cache, the
  \* cache file, and the last encode call with what it returned
  model, embedding_cache, cache_file, encode_ret,
  \* a DataIngestionPipeline: its stop_event, the position and locals of its
  \* ingestion run, and (history) the chunk that was being processed when
  \* stop_ingestion was first called
  stop_event, ingest, stopped_in

memVars == <<index, metadata, id_to_idx, dimension>>
diskVars == <<index_file, metadata_file>>
threadVars == <<pc, call, loc, ret>>
histVars == <<configured, persisted, crashedInSave, tornByCrash, suppliedIds,
              totalAdded, addsOnly, cands, disturbed>>
indexVars == <<memVars, diskVars, faiss_installed, threadVars, histVars>>
wrapVars == <<l2_cache, stats, mgr, gets_done>>
cacheVars == <<cache_type, max_size, default_ttl, _cache, cache_ret, now, wrapVars, setters>>
embedVars == <<model, embedding_cache, cache_file, encode_ret>>
ingestVars == <<stop_event, ingest, stopped_in>>
hybridVars == <<hybrid_shape, cross_encoder, hybrid_ret, rerank_ret, evidence_ret,
               annotated, embedVars, ingestVars>>

\* ------------------------------------------------------------ helpers
SeqsOf(S, lens) == UNION {[1..m -> S] : m \in lens}
EmptyMap == [x \in {} |-> 0]
Range(s) == {s[i] : i \in DOMAIN s}

\* Python list indexing lst[i]: a negative i counts from the end.
PyIndexOK(lst, i) == (i >= 0 /\ i < Len(lst)) \/ (i < 0 /\ -i <= Len(lst))
PyIndex(lst, i) == IF i >= 0 THEN lst[i + 1] ELSE lst[Len(lst) + i + 1]

\* ----------------------------------------------------- the faiss index
NoIndex == [ok |-> FALSE, d |-> 0, vecs |-> <<>>]
NewIndex(d) == [ok |-> TRUE, d |-> d, vecs |-> <<>>]

\* _initialize_faiss: an empty HNSW index, or None when faiss cannot be imported.
_initialize_faiss(d, installed) == IF installed THEN NewIndex(d) ELSE NoIndex

\* Squared L2 distance, the metric of IndexHNSWFlat.
Distance(q, v) == (q - v) * (q - v)

\* index.search(query, k): the k nearest stored vectors, nearest first, as
\* (label, distance); slots beyond ntotal are padded with label -1.
RECURSIVE Nearest(_, _, _, _)
Nearest(vecs, q, k, taken) ==
  IF k = 0 THEN <<>>
  ELSE LET rest == (1..Len(vecs)) \ taken IN
       IF rest = {}
       THEN <<[label |-> -1, distance |-> FLT_MAX]>> \o Nearest(vecs, q, k - 1, taken)
       ELSE LET best == CHOOSE i \in rest : \A j \in rest :
                           \/ Distance(q, vecs[i]) < Distance(q, vecs[j])
                           \/ Distance(q, vecs[i]) = Distance(q, vecs[j]) /\ i <= j
            IN <<[label |-> best - 1, distance |-> Distance(q, vecs[best])]>>
                 \o Nearest(vecs, q, k - 1, taken \cup {best})

index_search(ix, q, k) == Nearest(ix.vecs, q, k, {})

\* similarity = 1.0 / (1.0 + distance), kept as the fraction num/den.
Similarity(distance) == [num |-> 1, den |-> 1 + distance]

\* The validity test of search's result loop.
ValidIndex(idx, md) == idx < Len(md)

\* The result loop of search: every hit that passes the validity test becomes
\* (position, similarity, metadata[position]).
RECURSIVE FormatFrom(_, _, _)
FormatFrom(hits, md, i) ==
  IF i > Len(hits) THEN <<>>
  ELSE IF ValidIndex(hits[i].label, md)
       THEN <<[position |-> hits[i].label,
               similarity |-> Similarity(hits[i].distance),
               metadata |-> PyIndex(md, hits[i].label)]>> \o FormatFrom(hits, md, i + 1)
       ELSE FormatFrom(hits, md, i + 1)

\* metadata[idx] raises IndexError; search's except clause then returns [].
FormatRaises(hits, md) ==
  \E i \in 1..Len(hits) : ValidIndex(hits[i].label, md) /\ ~PyIndexOK(md, hits[i].label)

search_format(hits, md) == IF FormatRaises(hits, md) THEN <<>> ELSE FormatFrom(hits, md, 1)

\* search run with nothing interleaved, on a given index and metadata list.
SearchOn(ix, md, qdim, q, k) ==
  IF ~ix.ok \/ qdim # ix.d THEN <<>> ELSE search_format(index_search(ix, q, k), md)

\* ------------------------------------------------- the persisted files
AbsentFile == [state |-> "absent", d |-> 0, vecs |-> <<>>,
               metadata |-> <<>>, id_to_idx |-> EmptyMap, dimension |-> 0]
CorruptFile == [AbsentFile EXCEPT !.state = "corrupt"]

\* faiss.write_index: the blob holds the index's dimension and vectors.
write_index(ix) == [AbsentFile EXCEPT !.state = "ok", !.d = ix.d, !.vecs = ix.vecs]

\* pickle.dump of the side-table: metadata, id_to_idx and dimension.
pickle_dump_NoIds(md, ids, dim) ==
  [AbsentFile EXCEPT !.state = "ok", !.metadata = md, !.dimension = dim]

pickle_dump(md, ids, dim) ==
  [AbsentFile EXCEPT !.state = "ok", !.metadata = md, !.id_to_idx = ids, !.dimension = dim]

\* faiss.read_index: the index a blob holds.
read_index(blob) == [ok |-> TRUE, d |-> blob.d, vecs |-> blob.vecs]

\* ------------------------------------------------ calls and their frames
NoCall == [op |-> "none", dim |-> 0, vectors |-> <<>>, metadata |-> <<>>, ids |-> <<>>,
           q |-> 0, k |-> 0]
NoLoc == [start_idx |-> 0, hits |-> <<>>]
\* A return value, with the line the call wrote to the error log ("" for none).
NoRet == [ok |-> FALSE, results |-> <<>>, error |-> ""]
Returns(b) == [NoRet EXCEPT !.ok = b]
Fails(msg) == [NoRet EXCEPT !.error = msg]

Ready(t) == pc[t] \in {"idle", "done"}

\* The metadata and ids a caller passes with a batch of vectors: documents are
\* numbered by their coordinate, so a well-formed call passes the same list three
\* times (or no ids); the other shapes are lists of the wrong length.
MetadataShapes(vs) == {vs, Tail(vs)}
IdsShapes(vs) == {<<>>, vs, vs \o <<1>>}

AddCall(dm, vs, md, ids) ==
  [NoCall EXCEPT !.op = "add", !.dim = dm, !.vectors = vs, !.metadata = md, !.ids = ids]

Batches == SeqsOf(Coords, BatchSizes)

AddInputs ==
  UNION {{AddCall(dm, vs, md, ids) : md \in MetadataShapes(vs), ids \in IdsShapes(vs)} :
           dm \in Dims, vs \in Batches}

\* ------------------------------------------------------ history helpers
View(ix, md) == [index |-> ix, metadata |-> md]

\* The fields of the index, as a successful save_index found them.
Snapshot == [index |-> index, metadata |-> metadata, id_to_idx |-> id_to_idx,
             dimension |-> dimension]
NoSnapshot == [index |-> NoIndex, metadata |-> <<>>, id_to_idx |-> EmptyMap, dimension |-> 0]
\* persisted.state is what the last successful save_index saved (some: there was
\* one, and no save_index that failed has written over it since); valid: neither
\* file has been written since.
NoPersisted == [some |-> FALSE, valid |-> FALSE, state |-> NoSnapshot]
Touched(p) == [p EXCEPT !.valid = FALSE]

Adding(u) == pc[u] \in {"add_meta", "add_ids"}
Searching(u) == pc[u] = "search_format"
Saving(u) == pc[u] = "save_meta"

DropLast(s, n) == SubSeq(s, 1, Len(s) - n)

\* The index as it was before, and as it will be after, the add thread u is in.
PreAdd(u) ==
  View([index EXCEPT !.vecs = DropLast(@, Len(call[u].vectors))],
       IF pc[u] = "add_ids" THEN DropLast(metadata, Len(call[u].metadata)) ELSE metadata)
PostAdd(u) ==
  View(index, IF pc[u] = "add_ids" THEN metadata ELSE metadata \o call[u].metadata)

\* The states of the index that a search starting now may take as its own: the
\* current one, or the one before and the one after an add that is under way.
AtomicViews(t) ==
  IF \E u \in Threads \ {t} : Adding(u)
  THEN UNION {{PreAdd(u), PostAdd(u)} : u \in {v \in Threads \ {t} : Adding(v)}}
  ELSE {View(index, metadata)}

\* The call of thread t returns r; its arguments are dropped.
Finish(t, op, r) ==
  /\ pc' = [pc EXCEPT ![t] = "done"]
  /\ call' = [call EXCEPT ![t] = [NoCall EXCEPT !.op = op]]
  /\ ret' = [ret EXCEPT ![t] = r]
  /\ loc' = [loc EXCEPT ![t] = NoLoc]

\* The call of thread t moves on to position p with arguments a and locals l.
Continue(t, p, a, l) ==
  /\ pc' = [pc EXCEPT ![t] = p]
  /\ call' = [call EXCEPT ![t] = a]
  /\ ret' = [ret EXCEPT ![t] = NoRet]
  /\ loc' = [loc EXCEPT ![t] = l]

\* Thread t starts a call that is no search: its last search is forgotten.
Forget(t) ==
  /\ cands' = [cands EXCEPT ![t] = {}]
  /\ disturbed' = [disturbed EXCEPT ![t] = FALSE]

\* A step that changes the index other than by add_vectors: searches and adds
\* that are under way are no longer a race of add against search alone.
Disturb(t) ==
  /\ disturbed' = [u \in Threads |-> u # t /\ (disturbed[u] \/ Searching(u))]
  /\ addsOnly' = FALSE
  /\ suppliedIds' = {}
  /\ totalAdded' = 0

\* ------------------------------------------------------------ add_vectors
\* The length test of add_vectors.
LengthsMatch_Skipped(vectors, md) == TRUE

LengthsMatch(vectors, md) == Len(vectors) = Len(md)

\* The ids loop: ids[i] -> start_idx + i, a later entry replacing an earlier one.
\* An id registration that forgets start_idx.
RegisterIds_FromZero(map, ids, start_idx) ==
  [x \in DOMAIN map \cup Range(ids) |->
     IF x \in Range(ids)
     THEN (CHOOSE i \in DOMAIN ids : ids[i] = x /\ \A j \in DOMAIN ids : ids[j] = x => j <= i) - 1
     ELSE map[x]]

RegisterIds(map, ids, start_idx) ==
  [x \in DOMAIN map \cup Range(ids) |->
     IF x \in Range(ids)
     THEN start_idx + (CHOOSE i \in DOMAIN ids : ids[i] = x /\ \A j \in DOMAIN ids : ids[j] = x => j <= i) - 1
     ELSE map[x]]

\* Lines 77-91: the two guards, then index.add(vectors), which raises when the
\* vectors' dimension is not the index's.
AddIndex(t, a) ==
  /\ Ready(t)
  /\ IF ~index.ok
     THEN /\ Finish(t, "add", Fails("FAISS index not initialized"))
          /\ cands' = [cands EXCEPT ![t] = {}]
          /\ UNCHANGED memVars
     ELSE IF ~LengthsMatch(a.vectors, a.metadata)
     THEN /\ Finish(t, "add", Fails("Number of vectors must match number of metadata entries"))
          /\ cands' = [cands EXCEPT ![t] = {}]
          /\ UNCHANGED memVars
     ELSE IF a.dim # index.d
     THEN /\ Finish(t, "add", Fails("Error adding vectors to FAISS"))
          /\ cands' = [cands EXCEPT ![t] = {}]
          /\ UNCHANGED memVars
     ELSE /\ Len(index.vecs) + Len(a.vectors) <= MaxVecs
          /\ Len(metadata) + Len(a.metadata) <= MaxVecs
          /\ index' = [index EXCEPT !.vecs = @ \o a.vectors]
          /\ Continue(t, "add_meta", a, NoLoc)
          /\ cands' = [u \in Threads |->
                         IF u = t THEN {}
                         ELSE IF Searching(u)
                         THEN cands[u] \cup {SearchOn(index', metadata \o a.metadata,
                                                      call[u].dim, call[u].q, call[u].k)}
                         ELSE cands[u]]
          /\ UNCHANGED <<metadata, id_to_idx, dimension>>
  /\ disturbed' = [disturbed EXCEPT ![t] = FALSE]
  /\ UNCHANGED <<diskVars, faiss_installed, configured, persisted, crashedInSave, tornByCrash,
                 suppliedIds, totalAdded, addsOnly>>

  /\ UNCHANGED <<cacheVars, hybridVars>>
\* Lines 94-95: start_idx = len(self.metadata); self.metadata.extend(metadata).
AddMetadata(t) ==
  /\ pc[t] = "add_meta"
  /\ loc' = [loc EXCEPT ![t].start_idx = Len(metadata)]
  /\ metadata' = metadata \o call[t].metadata
  /\ pc' = [pc EXCEPT ![t] = "add_ids"]
  /\ UNCHANGED <<index, id_to_idx, dimension, diskVars, faiss_installed, call, ret, histVars>>

  /\ UNCHANGED <<cacheVars, hybridVars>>
\* Lines 98-103: register the ids and return True.
AddIds(t) ==
  /\ pc[t] = "add_ids"
  /\ id_to_idx' = RegisterIds(id_to_idx, call[t].ids, loc[t].start_idx)
  /\ Finish(t, "add", Returns(TRUE))
  /\ IF addsOnly
     THEN /\ suppliedIds' = suppliedIds \cup
                   {call[t].ids[i] : i \in DOMAIN call[t].ids \cap DOMAIN call[t].vectors}
          /\ totalAdded' = totalAdded + Len(call[t].vectors)
     ELSE UNCHANGED <<suppliedIds, totalAdded>>
  /\ UNCHANGED <<index, metadata, dimension, diskVars, faiss_installed, configured,
                 persisted, crashedInSave, tornByCrash, addsOnly, cands, disturbed>>

  /\ UNCHANGED <<cacheVars, hybridVars>>
\* ------------------------------------------------------------------ search
\* Lines 120-133: index.search(query_vector, top_k); a query of another
\* dimension raises and search returns [].
SearchIndex(t, qdim, q, k) ==
  /\ Ready(t)
  /\ IF ~index.ok
     THEN Finish(t, "search", Fails("FAISS index not initialized"))
     ELSE IF qdim # index.d
     THEN Finish(t, "search", Fails("Error searching FAISS index"))
     ELSE Continue(t, "search_format",
                   [NoCall EXCEPT !.op = "search", !.dim = qdim, !.q = q, !.k = k],
                   [NoLoc EXCEPT !.hits = index_search(index, q, k)])
  /\ cands' = [cands EXCEPT ![t] =
                 {SearchOn(v.index, v.metadata, qdim, q, k) : v \in AtomicViews(t)}]
  /\ disturbed' = [disturbed EXCEPT ![t] = FALSE]
  /\ UNCHANGED <<memVars, diskVars, faiss_installed, configured, persisted,
                 crashedInSave, tornByCrash, suppliedIds, totalAdded, addsOnly>>

  /\ UNCHANGED <<cacheVars, hybridVars>>
\* Lines 136-148: the result loop, and the except clause around it.
SearchFormat(t) ==
  /\ pc[t] = "search_format"
  /\ Finish(t, "search",
            [NoRet EXCEPT !.results = search_format(loc[t].hits, metadata),
                          !.error = IF FormatRaises(loc[t].hits, metadata)
                                    THEN "Error searching FAISS index" ELSE ""])
  /\ UNCHANGED <<memVars, diskVars, faiss_installed, histVars>>

  /\ UNCHANGED <<cacheVars, hybridVars>>
\* -------------------------------------------------------------- save_index
\* How a write to a file ends: written, refused at open (the file is left as it
\* was), or broken off after the file was truncated.
WriteOutcomes == {"ok", "open_fails", "write_fails"}

\* Lines 162-173: faiss.write_index(self.index, index_path).
SaveIndex(t, outcome) ==
  /\ Ready(t)
  /\ IF ~index.ok
     THEN /\ Finish(t, "save", Fails("No index to save"))
          /\ UNCHANGED index_file
     ELSE CASE outcome = "ok" ->
                 /\ index_file' = write_index(index)
                 /\ Continue(t, "save_meta", [NoCall EXCEPT !.op = "save"], NoLoc)
            [] outcome = "open_fails" ->
                 /\ Finish(t, "save", Fails("Error saving FAISS index"))
                 /\ UNCHANGED index_file
            [] outcome = "write_fails" ->
                 /\ Finish(t, "save", Fails("Error saving FAISS index"))
                 /\ index_file' = CorruptFile
  /\ Forget(t)
  /\ persisted' = IF pc'[t] = "save_meta" THEN Touched(persisted)
                  ELSE IF index_file' = index_file THEN persisted
                  ELSE NoPersisted
  /\ crashedInSave' = FALSE
  /\ UNCHANGED <<memVars, metadata_file, faiss_installed, configured, tornByCrash,
                 suppliedIds, totalAdded, addsOnly>>

  /\ UNCHANGED <<cacheVars, hybridVars>>
\* Lines 176-184: open(metadata_path, 'wb') and pickle.dump of the side-table.
SaveMetadata(t, outcome) ==
  /\ pc[t] = "save_meta"
  /\ CASE outcome = "ok" ->
            /\ metadata_file' = pickle_dump(metadata, id_to_idx, dimension)
            /\ Finish(t, "save", Returns(TRUE))
            /\ persisted' = [some |-> TRUE, valid |-> TRUE, state |-> Snapshot]
            /\ tornByCrash' = FALSE
       [] outcome = "open_fails" ->
            /\ Finish(t, "save", Fails("Error saving FAISS index"))
            /\ persisted' = NoPersisted
            /\ UNCHANGED <<metadata_file, tornByCrash>>
       [] outcome = "write_fails" ->
            /\ Finish(t, "save", Fails("Error saving FAISS index"))
            /\ metadata_file' = CorruptFile
            /\ persisted' = NoPersisted
            /\ UNCHANGED tornByCrash
  /\ UNCHANGED <<memVars, index_file, faiss_installed, configured, crashedInSave,
                 suppliedIds, totalAdded, addsOnly, cands, disturbed>>

  /\ UNCHANGED <<cacheVars, hybridVars>>
\* -------------------------------------------------------------- load_index
\* Lines 205-213: the existence test, then self.index = faiss.read_index(index_path).
LoadIndex(t) ==
  /\ Ready(t)
  /\ IF index_file.state = "absent" \/ metadata_file.state = "absent"
     THEN /\ Finish(t, "load", Returns(FALSE))
          /\ disturbed' = [disturbed EXCEPT ![t] = FALSE]
          /\ UNCHANGED <<index, addsOnly, suppliedIds, totalAdded>>
     ELSE IF ~faiss_installed \/ index_file.state = "corrupt"
     THEN /\ Finish(t, "load", Fails("Error loading FAISS index"))
          /\ disturbed' = [disturbed EXCEPT ![t] = FALSE]
          /\ UNCHANGED <<index, addsOnly, suppliedIds, totalAdded>>
     ELSE /\ index' = read_index(index_file)
          /\ Continue(t, "load_meta", [NoCall EXCEPT !.op = "load"], NoLoc)
          /\ Disturb(t)
  /\ cands' = [cands EXCEPT ![t] = {}]
  /\ UNCHANGED <<metadata, id_to_idx, dimension, diskVars, faiss_installed, configured,
                 persisted, crashedInSave, tornByCrash>>

  /\ UNCHANGED <<cacheVars, hybridVars>>
\* The three assignments of load_index from the unpickled side-table.
LoadAssign(side) ==
  /\ metadata' = side.metadata
  /\ id_to_idx' = side.id_to_idx
  /\ dimension' = side.dimension

\* Lines 216-227: pickle.load of the side-table; an unreadable file raises after
\* self.index was already replaced.
LoadMetadata(t) ==
  /\ pc[t] = "load_meta"
  /\ IF metadata_file.state # "ok"
     THEN /\ Finish(t, "load", Fails("Error loading FAISS index"))
          /\ UNCHANGED <<metadata, id_to_idx, dimension>>
     ELSE /\ LoadAssign(metadata_file)
          /\ Finish(t, "load", Returns(TRUE))
  /\ Disturb(t)
  /\ UNCHANGED <<index, diskVars, faiss_installed, configured, persisted,
                 crashedInSave, tornByCrash, cands>>

  /\ UNCHANGED <<cacheVars, hybridVars>>
\* ------------------------------------------------------------- clear_index
\* A clear_index that keeps the index it has.
ClearedIndex_KeepsVectors == index

\* The index clear_index leaves: a new empty one of the current dimension.
ClearedIndex == IF index.ok THEN NewIndex(dimension) ELSE index

Clear(t) ==
  /\ Ready(t)
  /\ index' = ClearedIndex
  /\ metadata' = <<>>
  /\ id_to_idx' = EmptyMap
  /\ Finish(t, "clear", NoRet)
  /\ disturbed' = [u \in Threads |-> u # t /\ (disturbed[u] \/ Searching(u))]
  /\ cands' = [cands EXCEPT ![t] = {}]
  /\ addsOnly' = ~(\E u \in Threads : Adding(u))
  /\ suppliedIds' = {}
  /\ totalAdded' = 0
  /\ UNCHANGED <<dimension, diskVars, faiss_installed, configured, persisted,
                 crashedInSave, tornByCrash>>

  /\ UNCHANGED <<cacheVars, hybridVars>>
\* ------------------------------------------------- construction and crash
\* What a crash leaves of the files: a side-table being written may be truncated.
TornFiles ==
  {<<index_file, metadata_file>>}
    \cup {<<index_file, CorruptFile>> : u \in {v \in Threads : Saving(v)}}

\* The process stops wherever it is and a new FAISSVectorSearch(dimension = d) is
\* constructed over the same files.
Restart(d) ==
  /\ dimension' = d
  /\ index' = _initialize_faiss(d, faiss_installed)
  /\ metadata' = <<>>
  /\ id_to_idx' = EmptyMap
  /\ \E files \in TornFiles : index_file' = files[1] /\ metadata_file' = files[2]
  /\ pc' = [t \in Threads |-> "idle"]
  /\ call' = [t \in Threads |-> NoCall]
  /\ loc' = [t \in Threads |-> NoLoc]
  /\ ret' = [t \in Threads |-> NoRet]
  /\ configured' = d
  /\ crashedInSave' = (crashedInSave \/ \E u \in Threads : Saving(u))
  /\ tornByCrash' = (tornByCrash \/ \E u \in Threads : Saving(u))
  /\ suppliedIds' = {}
  /\ totalAdded' = 0
  /\ addsOnly' = TRUE
  /\ cands' = [t \in Threads |-> {}]
  /\ disturbed' = [t \in Threads |-> FALSE]
  /\ persisted' = IF metadata_file' = metadata_file THEN persisted ELSE Touched(persisted)
  /\ UNCHANGED faiss_installed

  /\ UNCHANGED <<cacheVars, hybridVars>>
\* ============================================================ the caches
\* MemoryCache and SQLiteCache share one shape here: _cache is the dict of the
\* first, in insertion order, and the rows of table "cache" of the second, in
\* rowid order.  An entry is a CacheEntry, or a row with the same columns.
CacheEntry(key, value, ttl_seconds, t) ==
  [key |-> key, value |-> value, created_at |-> t, ttl_seconds |-> ttl_seconds,
   access_count |-> 0, last_accessed |-> t]

\* CacheEntry.is_expired, and the WHERE clause (created_at + ttl_seconds) < now.
is_expired(entry, t) == (t - entry.created_at) > entry.ttl_seconds

\* An access that refreshes last_accessed without counting.
access_Uncounted(entry, t) == [entry EXCEPT !.last_accessed = t]

\* CacheEntry.access, and the UPDATE of SQLiteCache.get.
access(entry, t) ==
  [entry EXCEPT !.access_count = @ + 1, !.last_accessed = t]

\* An Optional argument or return value: <<>> is None, <<x>> is x.
None == <<>>
Some(x) == <<x>>

\* ttl or self.default_ttl: None and 0 are both falsy.
TtlOrDefault(ttl, default) == IF ttl = None \/ ttl = Some(0) THEN default ELSE ttl[1]

KeysOf(c) == {c[i].key : i \in DOMAIN c}
PosOf(c, key) == CHOOSE i \in DOMAIN c : c[i].key = key
Without(c, i) == SubSeq(c, 1, i - 1) \o SubSeq(c, i + 1, Len(c))
\* The entry stored under key, and whether there is one that has not expired.
EntryOf(c, key) == c[PosOf(c, key)]
Live(c, key, t) == key \in KeysOf(c) /\ ~is_expired(EntryOf(c, key), t)
\* A sweep that deletes nothing.
Unexpired_KeepsAll(c, t) == c

RECURSIVE Unexpired(_, _)
Unexpired(c, t) ==
  IF c = <<>> THEN <<>>
  ELSE (IF is_expired(Head(c), t) THEN <<>> ELSE <<Head(c)>>) \o Unexpired(Tail(c), t)

\* Eviction of the entry stored first, whatever its last access.
LruPositions_Fifo(kind, c) == {1}

\* The entries _evict_lru may delete: min() over the dict takes the first key of
\* the oldest last_accessed; ORDER BY last_accessed ASC LIMIT 1 takes any row of
\* the oldest last_accessed.
LruPositions(kind, c) ==
  LET oldest == {i \in DOMAIN c : \A j \in DOMAIN c : c[i].last_accessed <= c[j].last_accessed}
  IN IF kind = "memory" THEN {i \in oldest : \A j \in oldest : i <= j} ELSE oldest

\* The size test of set.
OverLimit(size, limit) == size >= limit

\* self._cache[key] = entry keeps the place of a key the dict holds; INSERT OR
\* REPLACE deletes the old row and adds a new one.
Store(kind, c, entry) ==
  IF entry.key \in KeysOf(c)
  THEN IF kind = "memory" THEN [c EXCEPT ![PosOf(c, entry.key)] = entry]
       ELSE Append(Without(c, PosOf(c, entry.key)), entry)
  ELSE Append(c, entry)

\* The last call: its key and ttl arguments, what it returned, the key its
\* "Evicted LRU cache entry" log line is about, and whether it was a get that
\* found its entry expired.
NoCacheRet == [op |-> "none", key |-> "", ttl |-> None, value |-> None, ok |-> FALSE,
               evicted |-> None, expired |-> FALSE]
CacheReturns(op, key, value, ok) == [NoCacheRet EXCEPT !.op = op, !.key = key, !.value = value, !.ok = ok]

cacheConfig == <<cache_type, max_size, default_ttl>>

\* set on a backend of class kind holding c: evict one entry when the size has
\* reached the limit, then store the entry.  Each outcome is the entries left and
\* the key evicted.
SetOn(kind, c, limit, entry) ==
  {[cache |-> Store(kind, IF lru = None THEN c ELSE Without(c, lru[1]), entry),
    evicted |-> IF lru = None THEN None ELSE Some(c[lru[1]].key)] :
     lru \in IF OverLimit(Len(c), limit) /\ c # <<>>
             THEN {Some(i) : i \in LruPositions(kind, c)}
             ELSE {None}}

\* A get that answers from an expired entry and keeps it.
GetOn_ServesExpired(c, key, t) ==
  IF key \in KeysOf(c)
  THEN [cache |-> [c EXCEPT ![PosOf(c, key)] = access(@, t)], value |-> Some(EntryOf(c, key).value)]
  ELSE [cache |-> c, value |-> None]

\* get on a backend holding c: the value of a live entry, whose access is
\* recorded; an expired entry is deleted and the call returns None.
GetOn(c, key, t) ==
  IF Live(c, key, t)
  THEN [cache |-> [c EXCEPT ![PosOf(c, key)] = access(@, t)], value |-> Some(EntryOf(c, key).value)]
  ELSE IF key \in KeysOf(c)
  THEN [cache |-> Without(c, PosOf(c, key)), value |-> None]
  ELSE [cache |-> c, value |-> None]

\* The get can be counted within the model's bound on access_count.
Countable(c, key, t) == Live(c, key, t) => EntryOf(c, key).access_count < MaxAccess

\* A delete that reports True whether or not the key was held.
DeleteOn_AlwaysTrue(c, key) ==
  [cache |-> IF key \in KeysOf(c) THEN Without(c, PosOf(c, key)) ELSE c, ok |-> TRUE]

\* delete on a backend holding c: True when the key was held.
DeleteOn(c, key) ==
  [cache |-> IF key \in KeysOf(c) THEN Without(c, PosOf(c, key)) ELSE c,
   ok |-> key \in KeysOf(c)]

\* MemoryCache.set / SQLiteCache.set.
CacheSet(key, value, ttl) ==
  /\ \E r \in SetOn(cache_type, _cache, max_size,
                     CacheEntry(key, value, TtlOrDefault(ttl, default_ttl), now)) :
       /\ _cache' = r.cache
       /\ cache_ret' = [CacheReturns("set", key, None, TRUE) EXCEPT
                          !.ttl = ttl, !.evicted = r.evicted]
  /\ UNCHANGED <<cacheConfig, now, indexVars, hybridVars, setters, wrapVars>>

\* MemoryCache.get / SQLiteCache.get.
CacheGet(key) ==
  /\ Countable(_cache, key, now)
  /\ _cache' = GetOn(_cache, key, now).cache
  /\ cache_ret' = [CacheReturns("get", key, GetOn(_cache, key, now).value,
                                GetOn(_cache, key, now).value # None) EXCEPT
                     !.expired = key \in KeysOf(_cache) /\ ~Live(_cache, key, now)]
  /\ UNCHANGED <<cacheConfig, now, indexVars, hybridVars, setters, wrapVars>>

\* MemoryCache.delete / SQLiteCache.delete.
CacheDelete(key) ==
  /\ _cache' = DeleteOn(_cache, key).cache
  /\ cache_ret' = CacheReturns("delete", key, None, DeleteOn(_cache, key).ok)
  /\ UNCHANGED <<cacheConfig, now, indexVars, hybridVars, setters, wrapVars>>

\* clear().
CacheClear ==
  /\ _cache' = <<>>
  /\ cache_ret' = CacheReturns("clear", "", None, TRUE)
  /\ UNCHANGED <<cacheConfig, now, indexVars, hybridVars, setters, wrapVars>>

\* _cleanup_expired, the body of the background sweep.
CleanupExpired ==
  /\ _cache' = Unexpired(_cache, now)
  /\ UNCHANGED <<cacheConfig, cache_ret, now, indexVars, hybridVars, setters, wrapVars>>

\* The clock advances.
Tick ==
  /\ now < MaxTime
  /\ now' = now + 1
  /\ UNCHANGED <<cacheConfig, _cache, cache_ret, indexVars, hybridVars, setters, wrapVars>>

\* The process restarts and constructs the cache anew with max_size = m: the dict
\* starts empty, the database file keeps its rows.
CacheReopen(m) ==
  /\ max_size' = m
  /\ _cache' = IF cache_type = "memory" THEN <<>> ELSE _cache
  /\ cache_ret' = NoCacheRet
  /\ UNCHANGED <<cache_type, default_ttl, now, indexVars, hybridVars, setters, wrapVars>>

\* -------------------------------------------------------- MultiLevelCache
\* The composite CacheManager builds for type "multi_level": tier 1 is a
\* MemoryCache (held in _cache), tier 2 a SQLiteCache (held in l2_cache), both
\* with the configured max_size and default_ttl.

\* A get that returns the hit of tier 2 without setting it in tier 1.
MlGetOn_NoPromote(l1, l2, limit, default, key, t) ==
  LET g1 == GetOn(l1, key, t)
      g2 == GetOn(l2, key, t)
  IN IF g1.value # None THEN [l1 |-> g1.cache, l2 |-> l2, value |-> g1.value]
     ELSE [l1 |-> g1.cache, l2 |-> g2.cache, value |-> g2.value]

\* MultiLevelCache.get: tier 1, then tier 2, whose hit is set in tier 1.
MlGetOn(l1, l2, limit, default, key, t) ==
  LET g1 == GetOn(l1, key, t)
      g2 == GetOn(l2, key, t)
      promoted == CHOOSE r \in SetOn("memory", g1.cache, limit,
                                      CacheEntry(key, g2.value[1], default, t)) : TRUE
  IN IF g1.value # None THEN [l1 |-> g1.cache, l2 |-> l2, value |-> g1.value]
     ELSE IF g2.value # None THEN [l1 |-> promoted.cache, l2 |-> g2.cache, value |-> g2.value]
     ELSE [l1 |-> g1.cache, l2 |-> g2.cache, value |-> None]

MlCountable(l1, l2, key, t) ==
  /\ Countable(l1, key, t)
  /\ GetOn(l1, key, t).value = None => Countable(l2, key, t)

\* MultiLevelCache.set: set in both tiers.
MlSetOn(l1, l2, limit, entry) ==
  {[l1 |-> r1.cache, l2 |-> r2.cache, ok |-> TRUE] :
     r1 \in SetOn("memory", l1, limit, entry), r2 \in SetOn("sqlite", l2, limit, entry)}

\* MultiLevelCache.delete: delete in both tiers; True when either held the key.
MlDeleteOn(l1, l2, key) ==
  [l1 |-> DeleteOn(l1, key).cache, l2 |-> DeleteOn(l2, key).cache,
   ok |-> DeleteOn(l1, key).ok \/ DeleteOn(l2, key).ok]

mlFrame == <<cacheConfig, now, indexVars, hybridVars, setters, stats, mgr, gets_done>>

MlGet(key) ==
  /\ MlCountable(_cache, l2_cache, key, now)
  /\ LET r == MlGetOn(_cache, l2_cache, max_size, default_ttl, key, now) IN
       /\ _cache' = r.l1
       /\ l2_cache' = r.l2
       /\ cache_ret' = CacheReturns("get", key, r.value, r.value # None)
  /\ UNCHANGED mlFrame

MlSet(key, value, ttl) ==
  /\ \E r \in MlSetOn(_cache, l2_cache, max_size,
                       CacheEntry(key, value, TtlOrDefault(ttl, default_ttl), now)) :
       /\ _cache' = r.l1
       /\ l2_cache' = r.l2
       /\ cache_ret' = [CacheReturns("set", key, None, r.ok) EXCEPT !.ttl = ttl]
  /\ UNCHANGED mlFrame

MlDelete(key) ==
  /\ _cache' = MlDeleteOn(_cache, l2_cache, key).l1
  /\ l2_cache' = MlDeleteOn(_cache, l2_cache, key).l2
  /\ cache_ret' = CacheReturns("delete", key, None, MlDeleteOn(_cache, l2_cache, key).ok)
  /\ UNCHANGED mlFrame

\* SQLiteCache._cleanup_expired of tier 2.
L2CleanupExpired ==
  /\ l2_cache' = Unexpired(l2_cache, now)
  /\ UNCHANGED <<_cache, cache_ret, mlFrame>>

\* ---------------------------------------------------------- CacheManager
\* self.cache.get(key) on the backend the manager was configured with.
BackendGetOn(kind, l1, l2, limit, default, key, t) ==
  IF kind = "multi_level" THEN MlGetOn(l1, l2, limit, default, key, t)
  ELSE [l1 |-> GetOn(l1, key, t).cache, l2 |-> l2, value |-> GetOn(l1, key, t).value]

BackendCountable(kind, l1, l2, key, t) ==
  IF kind = "multi_level" THEN MlCountable(l1, l2, key, t) ELSE Countable(l1, key, t)

\* self.cache.set(key, value, ttl) on that backend.
BackendSetOn(kind, l1, l2, limit, entry) ==
  IF kind = "multi_level" THEN MlSetOn(l1, l2, limit, entry)
  ELSE {[l1 |-> r.cache, l2 |-> l2, ok |-> TRUE] : r \in SetOn(kind, l1, limit, entry)}

\* CacheManager.stats, as __init__ leaves it.
NoStats == [hits |-> 0, misses |-> 0, sets |-> 0, deletes |-> 0, errors |-> 0]

\* A caller of CacheManager.get: where it is, the value self.cache.get returned,
\* the counter it is about to add to and the value of that counter it has read.
NoMgr == [pc |-> "idle", value |-> None, counter |-> "", seen |-> 0]

\* Line 667: value = self.cache.get(key).
MgrGetCall(t, key) ==
  /\ mgr[t].pc = "idle"
  /\ gets_done + Cardinality({u \in Threads : mgr[u].pc # "idle"}) < MaxGets
  /\ BackendCountable(cache_type, _cache, l2_cache, key, now)
  /\ LET r == BackendGetOn(cache_type, _cache, l2_cache, max_size, default_ttl, key, now) IN
       /\ _cache' = r.l1
       /\ l2_cache' = r.l2
       /\ cache_ret' = CacheReturns("get", key, r.value, r.value # None)
       /\ mgr' = [mgr EXCEPT ![t] = [NoMgr EXCEPT !.pc = "read", !.value = r.value]]
  /\ UNCHANGED <<cacheConfig, now, indexVars, hybridVars, setters, stats, gets_done>>

\* Lines 668-671: the left side of self.stats[...] += 1 reads the counter.
MgrGetRead(t) ==
  /\ mgr[t].pc = "read"
  /\ LET counter == IF mgr[t].value # None THEN "hits" ELSE "misses" IN
     mgr' = [mgr EXCEPT ![t].pc = "write", ![t].counter = counter, ![t].seen = stats[counter]]
  /\ UNCHANGED <<cacheConfig, _cache, cache_ret, now, indexVars, hybridVars, setters, l2_cache, stats, gets_done>>

\* Lines 668-672: the counter is stored, one more than was read, and get returns.
MgrGetWrite(t) ==
  /\ mgr[t].pc = "write"
  /\ stats' = [stats EXCEPT ![mgr[t].counter] = mgr[t].seen + 1]
  /\ mgr' = [mgr EXCEPT ![t] = [NoMgr EXCEPT !.value = mgr[t].value]]
  /\ gets_done' = gets_done + 1
  /\ UNCHANGED <<cacheConfig, _cache, cache_ret, now, indexVars, hybridVars, setters, l2_cache>>

\* CacheManager.set: the backend's set, counted in sets when it succeeds.
MgrSet(t, key, value, ttl) ==
  /\ mgr[t].pc = "idle"
  /\ \E r \in BackendSetOn(cache_type, _cache, l2_cache, max_size,
                            CacheEntry(key, value, TtlOrDefault(ttl, default_ttl), now)) :
       /\ _cache' = r.l1
       /\ l2_cache' = r.l2
       /\ cache_ret' = [CacheReturns("set", key, None, r.ok) EXCEPT !.ttl = ttl]
       /\ stats' = IF r.ok THEN [stats EXCEPT !.sets = @ + 1] ELSE stats
  /\ stats.sets < MaxGets
  /\ UNCHANGED <<cacheConfig, now, indexVars, hybridVars, setters, mgr, gets_done>>

\* round(x, 4) of x = num / den, in ten-thousandths: to the nearest, a tie to
\* the even one.
Round4_Truncated(num, den) == (num * 10000) \div den

Round4(num, den) ==
  LET q == (num * 10000) \div den
      r == (num * 10000) % den
  IN IF 2 * r > den \/ (2 * r = den /\ q % 2 = 1) THEN q + 1 ELSE q

\* CacheManager.get_stats: total_requests and hit_rate (in ten-thousandths).
total_requests(st) == st.hits + st.misses
hit_rate(st) == IF total_requests(st) > 0 THEN Round4(st.hits, total_requests(st)) ELSE 0

\* ------------------------------------------ SQLiteCache.set, statement by statement
\* SQLiteCache takes no lock: each call opens its own connection, reads the row
\* count outside any transaction, and then evicts and inserts in one write
\* transaction, which sqlite runs one at a time.
NoSetter == [pc |-> "idle", key |-> "", value |-> 0, ttl |-> None, count |-> 0]

\* Lines 443-445: SELECT COUNT(*) FROM cache.
SqlSetCount(t, key, value, ttl) ==
  /\ cache_type = "sqlite"
  /\ setters[t].pc \in {"idle", "done"}
  /\ setters' = [setters EXCEPT ![t] = [pc |-> "write", key |-> key, value |-> value,
                                         ttl |-> ttl, count |-> Len(_cache)]]
  /\ UNCHANGED <<cacheConfig, _cache, cache_ret, now, wrapVars, indexVars, hybridVars>>

\* The rows the write transaction leaves: one row evicted when the count that was
\* read had reached the limit, then INSERT OR REPLACE.
SqlWriteOn(c, count, limit, entry) ==
  {[cache |-> Store("sqlite", IF lru = None THEN c ELSE Without(c, lru[1]), entry),
    evicted |-> IF lru = None THEN None ELSE Some(c[lru[1]].key)] :
     lru \in IF OverLimit(count, limit) /\ c # <<>>
             THEN {Some(i) : i \in LruPositions("sqlite", c)}
             ELSE {None}}

\* Lines 447-460: the eviction, the insert and the commit; set returns True.
SqlSetWrite(t) ==
  /\ setters[t].pc = "write"
  /\ \E r \in SqlWriteOn(_cache, setters[t].count, max_size,
                          CacheEntry(setters[t].key, setters[t].value,
                                     TtlOrDefault(setters[t].ttl, default_ttl), now)) :
       /\ _cache' = r.cache
       /\ cache_ret' = [CacheReturns("set", setters[t].key, None, TRUE) EXCEPT
                          !.ttl = setters[t].ttl, !.evicted = r.evicted]
  /\ setters' = [setters EXCEPT ![t].pc = "done"]
  /\ UNCHANGED <<cacheConfig, now, wrapVars, indexVars, hybridVars>>

\* ------------------------------------------------- TextEmbeddingEngine
\* Texts: empty, whitespace, and two with content.
Texts == {"", " ", "x", "y"}
TextBatches == SeqsOf(Texts, 0..2)

\* not text or not text.strip()
Blank(text) == text \in {"", " "}

\* _get_text_hash: the md5 digest of the text.
_get_text_hash(text) ==
  CASE text = "" -> "d41d8cd9"
    [] text = " " -> "7215ee9c"
    [] text = "x" -> "9dd4e461"
    [] text = "y" -> "41529076"

\* model.encode: the vector of a text, told by its one coordinate.
ModelEncode(text) == CASE text = "x" -> 1 [] text = "y" -> 2 [] OTHER -> 4

\* np.zeros(self.embedding_dim)
ZeroVector == 0

\* What _load_cache finds at construction: no file, or a file of earlier
\* embeddings (one of them made by another model).
LoadedCaches == {EmptyMap, [h \in {_get_text_hash("x")} |-> 3]}

\* What the model does on a batch: not called, returns the vectors, raises.
EncodeOutcomes == {"none", "ok", "raises"}

\* The first loop of encode_batch: whether slot i is left to the model.
Uncached(cache, texts, use_cache, i) ==
  /\ ~Blank(texts[i])
  /\ ~(use_cache /\ _get_text_hash(texts[i]) \in DOMAIN cache)

RECURSIVE UncachedFrom(_, _, _, _)
UncachedFrom(cache, texts, use_cache, i) ==
  IF i > Len(texts) THEN <<>>
  ELSE IF Uncached(cache, texts, use_cache, i)
       THEN <<texts[i]>> \o UncachedFrom(cache, texts, use_cache, i + 1)
       ELSE UncachedFrom(cache, texts, use_cache, i + 1)

\* The slot of a text the model was not asked about.
CachedSlot(cache, text) ==
  IF Blank(text) THEN Some(ZeroVector) ELSE Some(cache[_get_text_hash(text)])

\* encode_batch on a given cache: what it returns, the texts it handed to the
\* model, and the cache it leaves.
EncodeBatchOn(loaded, cache, texts, use_cache, outcome) ==
  IF ~loaded
  THEN [results |-> [i \in DOMAIN texts |-> None], invoked |-> <<>>, cache |-> cache]
  ELSE LET uncached_texts == UncachedFrom(cache, texts, use_cache, 1)
       IN [results |->
             [i \in DOMAIN texts |->
                IF ~Uncached(cache, texts, use_cache, i) THEN CachedSlot(cache, texts[i])
                ELSE IF outcome = "ok" THEN Some(ModelEncode(texts[i]))
                ELSE Some(ZeroVector)],
           invoked |-> uncached_texts,
           cache |->
             IF outcome = "ok" /\ use_cache
             THEN [h \in DOMAIN cache \cup {_get_text_hash(uncached_texts[i]) : i \in DOMAIN uncached_texts} |->
                     IF \E i \in DOMAIN uncached_texts : _get_text_hash(uncached_texts[i]) = h
                     THEN ModelEncode(CHOOSE text \in Range(uncached_texts) : _get_text_hash(text) = h)
                     ELSE cache[h]]
             ELSE cache]

NoEncodeRet == [op |-> "none", texts |-> <<>>, use_cache |-> TRUE, outcome |-> "none",
                before |-> EmptyMap, invoked |-> <<>>, results |-> <<>>]

\* A call of encode_batch(texts, use_cache = ...); the model's encode returns or
\* raises, and so does the writing of the cache file that ends the call.
EncodeBatch(texts, use_cache, outcome, saved) ==
  LET r == EncodeBatchOn(model, embedding_cache, texts, use_cache, outcome)
      saving == r.invoked # <<>> /\ use_cache
  IN /\ (outcome = "none") = (r.invoked = <<>>)
     /\ ~saving => saved
     /\ encode_ret' = [op |-> "encode_batch", texts |-> texts, use_cache |-> use_cache,
                       outcome |-> outcome, before |-> embedding_cache,
                       invoked |-> r.invoked, results |-> r.results]
     /\ embedding_cache' = r.cache
     /\ cache_file' = IF saving /\ saved THEN r.cache ELSE cache_file
     /\ UNCHANGED <<indexVars, cacheVars, ingestVars, model, hybrid_shape, cross_encoder, hybrid_ret,
                    rerank_ret, evidence_ret, annotated>>

\* encode_text saves the cache file when the cache's size is a multiple of this.
SaveEvery == 100

\* encode_text that stores what it returns for a blank text.
EncodeTextOn_CachesBlank(loaded, cache, text, use_cache, outcome) ==
  LET stored(v) == [h \in DOMAIN cache \cup {_get_text_hash(text)} |->
                      IF h = _get_text_hash(text) THEN v ELSE cache[h]]
  IN IF ~loaded THEN [result |-> None, called |-> FALSE, cache |-> cache]
     ELSE IF use_cache /\ _get_text_hash(text) \in DOMAIN cache
     THEN [result |-> Some(cache[_get_text_hash(text)]), called |-> FALSE, cache |-> cache]
     ELSE IF Blank(text)
     THEN [result |-> Some(ZeroVector), called |-> FALSE,
           cache |-> IF use_cache THEN stored(ZeroVector) ELSE cache]
     ELSE IF outcome = "ok"
     THEN [result |-> Some(ModelEncode(text)), called |-> TRUE,
           cache |-> IF use_cache THEN stored(ModelEncode(text)) ELSE cache]
     ELSE [result |-> None, called |-> TRUE, cache |-> cache]

\* encode_text on a given cache: what it returns, whether it called the model,
\* and the cache it leaves.
EncodeTextOn(loaded, cache, text, use_cache, outcome) ==
  IF ~loaded THEN [result |-> None, called |-> FALSE, cache |-> cache]
  ELSE IF Blank(text) THEN [result |-> Some(ZeroVector), called |-> FALSE, cache |-> cache]
  ELSE IF use_cache /\ _get_text_hash(text) \in DOMAIN cache
  THEN [result |-> Some(cache[_get_text_hash(text)]), called |-> FALSE, cache |-> cache]
  ELSE IF outcome = "ok"
  THEN [result |-> Some(ModelEncode(text)), called |-> TRUE,
        cache |-> IF use_cache
                  THEN [h \in DOMAIN cache \cup {_get_text_hash(text)} |->
                          IF h = _get_text_hash(text) THEN ModelEncode(text) ELSE cache[h]]
                  ELSE cache]
  ELSE [result |-> None, called |-> TRUE, cache |-> cache]

\* A call of encode_text(text, use_cache = ...); the model's encode returns or
\* raises, and so does the periodic writing of the cache file.
EncodeText(text, use_cache, outcome, saved) ==
  LET r == EncodeTextOn(model, embedding_cache, text, use_cache, outcome)
      saving == r.called /\ outcome = "ok" /\ use_cache
                  /\ Cardinality(DOMAIN r.cache) % SaveEvery = 0
  IN /\ (outcome = "none") = ~r.called
     /\ ~saving => saved
     /\ encode_ret' = [op |-> "encode_text", texts |-> <<text>>, use_cache |-> use_cache,
                       outcome |-> outcome, before |-> embedding_cache,
                       invoked |-> IF r.called THEN <<text>> ELSE <<>>,
                       results |-> <<r.result>>]
     /\ embedding_cache' = r.cache
     /\ cache_file' = IF saving /\ saved THEN r.cache ELSE cache_file
     /\ UNCHANGED <<indexVars, cacheVars, ingestVars, model, hybrid_shape, cross_encoder, hybrid_ret,
                    rerank_ret, evidence_ret, annotated>>

\* The engine after construction: the cache is what the cache file held.
EmbedInit(models, caches) ==
  /\ model \in models
  /\ embedding_cache \in caches
  /\ cache_file = embedding_cache
  /\ encode_ret = NoEncodeRet

\* ------------------------------------- EvidenceRetriever, HybridRetriever
\* Values of initial_top_k, of final_top_k and of min_similarity (as fractions).
InitialTopKs == {1, 2}
FinalTopKs == {0, 1, 2}
MinSimilarities == {[num |-> 0, den |-> 1], [num |-> 3, den |-> 4]}
\* What encode_text(query) gives: None, or a vector of the index's first dimension.
Embeddings == {None} \cup {Some(q) : q \in Coords}
\* Scores the cross-encoder gives a (query, passage) pair.
RerankScores == {-1, 1}

\* The two HybridRetriever classes: vector_search.py's builds its scorer itself,
\* reranker.py's is handed a CrossEncoderReranker.
HybridShapes == {"internal", "injected"}
\* reranker.py's class stores whatever it is handed: also None, and then
\* self.cross_encoder.rerank raises inside the try block.
InjectedShapes == HybridShapes \cup {"injected_none"}

\* lst[:k]
PySlice(lst, k) ==
  IF k >= 0 THEN SubSeq(lst, 1, IF k < Len(lst) THEN k ELSE Len(lst))
  ELSE SubSeq(lst, 1, IF Len(lst) + k > 0 THEN Len(lst) + k ELSE 0)

\* similarity >= min_similarity, on fractions.
AtLeast(a, b) == a.num * b.den >= b.num * a.den

\* A retrieve_evidence that hands out the stored metadata record itself, with
\* the scores put into it.
Evidence_Stored(r) ==
  [id |-> r.metadata, similarity_score |-> r.similarity, faiss_index |-> r.position,
   rerank_score |-> None, combined_score |-> None, final_rank |-> None,
   ranking_method |-> None, stored |-> TRUE]

\* The dictionary retrieve_evidence builds for one search result: a new object
\* (stored is FALSE), filled from the stored record; the fields a later stage adds
\* are None.
Evidence(r) ==
  [id |-> r.metadata, similarity_score |-> r.similarity, faiss_index |-> r.position,
   rerank_score |-> None, combined_score |-> None, final_rank |-> None,
   ranking_method |-> None, stored |-> FALSE]

RECURSIVE EvidenceFrom(_, _, _)
EvidenceFrom(results, min_similarity, i) ==
  IF i > Len(results) THEN <<>>
  ELSE IF AtLeast(results[i].similarity, min_similarity)
       THEN <<Evidence(results[i])>> \o EvidenceFrom(results, min_similarity, i + 1)
       ELSE EvidenceFrom(results, min_similarity, i + 1)

\* A retrieve_evidence that searches with the first vector when the query has no
\* embedding.
retrieve_evidence_AnyQuery(ix, md, embedding, top_k, min_similarity) ==
  EvidenceFrom(SearchOn(ix, md, 1, IF embedding = None THEN 1 ELSE embedding[1], top_k),
               min_similarity, 1)

\* retrieve_evidence on a given index: [] when the query cannot be embedded,
\* else the search results of similarity >= min_similarity, in search order.
retrieve_evidence(ix, md, embedding, top_k, min_similarity) ==
  IF embedding = None THEN <<>>
  ELSE EvidenceFrom(SearchOn(ix, md, 1, embedding[1], top_k), min_similarity, 1)

\* 1 / (1 + exp(rerank_score)): the sign of the exponent lost.
Sigmoid_Decreasing(rerank_score) ==
  CASE rerank_score = -1 -> 7311
    [] rerank_score = 0 -> 5000
    [] rerank_score = 1 -> 2689

\* 1 / (1 + exp(-rerank_score)), in ten-thousandths.
Sigmoid(rerank_score) ==
  CASE rerank_score = -1 -> 2689
    [] rerank_score = 0 -> 5000
    [] rerank_score = 1 -> 7311

\* _combine_scores: 0.3 * similarity + 0.7 * sigmoid(rerank), kept within [0, 1];
\* in hundred-thousandths, the similarity taken to four decimals.
_combine_scores(similarity_score, rerank_score) ==
  LET combined == 3 * ((similarity_score.num * 10000) \div similarity_score.den)
                    + 7 * Sigmoid(rerank_score)
  IN IF combined < 0 THEN 0 ELSE IF combined > 100000 THEN 100000 ELSE combined

\* list.sort(key = combined_score, reverse = True): stable, so passages of equal
\* score keep their order.
RECURSIVE SortByCombined(_)
SortByCombined(ps) ==
  IF ps = <<>> THEN <<>>
  ELSE LET top == CHOOSE i \in DOMAIN ps :
                    /\ \A j \in DOMAIN ps : ps[j].combined_score[1] <= ps[i].combined_score[1]
                    /\ \A j \in 1..(i - 1) : ps[j].combined_score[1] < ps[i].combined_score[1]
       IN <<ps[top]>> \o SortByCombined(SubSeq(ps, 1, top - 1) \o SubSeq(ps, top + 1, Len(ps)))

\* What the scorer's predict does on n pairs: it raises, or gives n scores.
NoPredict == [called |-> FALSE, raised |-> FALSE, scores |-> <<>>]
PredictOutcomes(n) ==
  {[called |-> TRUE, raised |-> TRUE, scores |-> <<>>]}
    \cup {[called |-> TRUE, raised |-> FALSE, scores |-> s] : s \in [1..n -> RerankScores]}

\* The scoring of _rerank_with_cross_encoder and of CrossEncoderReranker.rerank
\* (the same statements): copies of the passages with rerank_score and
\* combined_score, sorted, cut to top_k when top_k is truthy; the passages
\* themselves when anything raised.
RerankScored(passages, top_k, predict) ==
  IF predict.raised THEN passages
  ELSE LET scored == [i \in DOMAIN passages |->
                        [passages[i] EXCEPT
                           !.stored = FALSE,
                           !.rerank_score = Some(predict.scores[i]),
                           !.combined_score =
                              Some(_combine_scores(passages[i].similarity_score, predict.scores[i]))]]
           sorted == SortByCombined(scored)
       IN IF top_k # 0 THEN PySlice(sorted, top_k) ELSE sorted

\* A rerank that cuts to top_k even when no model is loaded.
rerank_CutsUnscored(loaded, passages, top_k, predict) ==
  IF ~loaded THEN (IF top_k # 0 THEN PySlice(passages, top_k) ELSE passages)
  ELSE IF passages = <<>> THEN <<>>
  ELSE RerankScored(passages, top_k, predict)

\* CrossEncoderReranker.rerank: the passages when no model is loaded, [] for no
\* passages, else the scoring.
rerank(loaded, passages, top_k, predict) ==
  IF ~loaded THEN passages
  ELSE IF passages = <<>> THEN <<>>
  ELSE RerankScored(passages, top_k, predict)

\* Step 3 of retrieve_and_rerank: final_rank and ranking_method on every result.
Tagged(results, method) ==
  [i \in DOMAIN results |->
     [results[i] EXCEPT !.final_rank = Some(i), !.ranking_method = Some(method)]]

\* Step 3 assigns into the result objects: the stored metadata records it writes
\* into, by position.
WrittenInPlace(results) ==
  {results[i].faiss_index : i \in {j \in DOMAIN results : results[j].stored}}

\* Whether a call of retrieve_and_rerank on these candidates calls predict.
CallsPredict(loaded, candidates) == loaded /\ candidates # <<>>

\* vector_search.py's retrieve_and_rerank, after stage 1.
HybridInternal(loaded, candidates, final_top_k, predict) ==
  IF candidates = <<>> THEN <<>>
  ELSE Tagged(IF loaded THEN RerankScored(candidates, final_top_k, predict)
                        ELSE PySlice(candidates, final_top_k),
              IF loaded THEN "hybrid_dense_crossencoder" ELSE "dense_only")

\* reranker.py's retrieve_and_rerank, after stage 1.
HybridInjected(loaded, candidates, final_top_k, predict) ==
  IF candidates = <<>> THEN <<>>
  ELSE Tagged(rerank(loaded, candidates, final_top_k, predict), "hybrid_dense_crossencoder")

\* The except clause of retrieve_and_rerank: retrieve_evidence again, with
\* top_k = final_top_k (the query's embedding is the cached one).
HybridFallback_NoThreshold(ix, md, embedding, final_top_k, min_similarity) ==
  retrieve_evidence(ix, md, embedding, final_top_k, [num |-> 0, den |-> 1])

HybridFallback(ix, md, embedding, final_top_k, min_similarity) ==
  retrieve_evidence(ix, md, embedding, final_top_k, min_similarity)

NoHybridRet ==
  [op |-> "none", embedding |-> None, initial_top_k |-> 0, final_top_k |-> 0,
   min_similarity |-> [num |-> 0, den |-> 1], predict |-> NoPredict,
   candidates |-> <<>>, results |-> <<>>]

\* A call of retrieve_evidence by a caller that has no other call under way.
RetrieveEvidence(t, embedding, top_k, min_similarity) ==
  /\ Ready(t)
  /\ hybrid_ret' = [NoHybridRet EXCEPT
                      !.op = "retrieve_evidence", !.embedding = embedding,
                      !.initial_top_k = top_k, !.min_similarity = min_similarity,
                      !.results = retrieve_evidence(index, metadata, embedding, top_k, min_similarity)]
  /\ UNCHANGED <<indexVars, cacheVars, embedVars, ingestVars, hybrid_shape, cross_encoder, rerank_ret, evidence_ret,
                 annotated>>

\* A call of retrieve_and_rerank; candidates records what stage 1 gave.
RetrieveAndRerank(t, embedding, initial_top_k, final_top_k, min_similarity, predict) ==
  /\ Ready(t)
  /\ LET candidates == retrieve_evidence(index, metadata, embedding, initial_top_k, min_similarity)
     IN /\ IF CallsPredict(cross_encoder, candidates) /\ hybrid_shape \in HybridShapes
           THEN predict \in PredictOutcomes(Len(candidates))
           ELSE predict = NoPredict
        /\ hybrid_ret' =
             [op |-> "retrieve_and_rerank", embedding |-> embedding,
              initial_top_k |-> initial_top_k, final_top_k |-> final_top_k,
              min_similarity |-> min_similarity, predict |-> predict,
              candidates |-> candidates,
              results |-> IF hybrid_shape = "internal"
                          THEN HybridInternal(cross_encoder, candidates, final_top_k, predict)
                          ELSE IF hybrid_shape = "injected"
                          THEN HybridInjected(cross_encoder, candidates, final_top_k, predict)
                          ELSE IF candidates = <<>> THEN <<>>
                          ELSE HybridFallback(index, metadata, embedding, final_top_k, min_similarity)]
  /\ annotated' = annotated \cup WrittenInPlace(hybrid_ret'.results)
  /\ UNCHANGED <<indexVars, cacheVars, embedVars, ingestVars, hybrid_shape, cross_encoder, rerank_ret, evidence_ret>>

\* Passages a caller hands to rerank: passage i has id i, and any similarity_score,
\* also one outside [0, 1]; top_k is None or a number.
PassageSims == {[num |-> -2, den |-> 1], [num |-> 1, den |-> 2], [num |-> 1, den |-> 1],
                [num |-> 2, den |-> 1]}
Passage(id, similarity_score) ==
  Evidence([metadata |-> id, similarity |-> similarity_score, position |-> id - 1])
PassageLists ==
  UNION {{[i \in 1..n |-> Passage(i, sims[i])] : sims \in [1..n -> PassageSims]} :
           n \in 0..MaxPassages}
RerankTopKs == {None, Some(0), Some(1), Some(2)}

\* `if top_k:` takes None as it takes 0.
TopKValue(top_k) == IF top_k = None THEN 0 ELSE top_k[1]

NoRerankRet == [op |-> "none", passages |-> <<>>, top_k |-> None, predict |-> NoPredict,
                results |-> <<>>]

\* A direct call of CrossEncoderReranker.rerank(query, passages, top_k).
RerankCall(passages, top_k, predict) ==
  /\ IF CallsPredict(cross_encoder, passages)
     THEN predict \in PredictOutcomes(Len(passages))
     ELSE predict = NoPredict
  /\ rerank_ret' = [op |-> "rerank", passages |-> passages, top_k |-> top_k,
                    predict |-> predict,
                    results |-> rerank(cross_encoder, passages, TopKValue(top_k), predict)]
  /\ UNCHANGED <<indexVars, cacheVars, embedVars, ingestVars, hybrid_shape, cross_encoder, hybrid_ret, evidence_ret,
                 annotated>>

\* ----------------------------- add_evidence, get_evidence_by_id
\* Articles handed to add_evidence: 'id' absent or given, 'url', and 'embedding'
\* absent or a vector of the index's first dimension.
ArticleUrls == {11}
Articles ==
  {[id |-> i, url |-> u, embedding |-> e] :
     i \in {None} \cup {Some(c) : c \in Coords}, u \in ArticleUrls, e \in Embeddings}
ArticleBatches == SeqsOf(Articles, BatchSizes)

\* article.get('id', article.get('url', ''))
ArticleKey(article) == IF article.id # None THEN article.id[1] ELSE article.url

\* The loop of add_evidence: the articles that have an embedding, in order.
RECURSIVE Embedded(_)
Embedded(articles) ==
  IF articles = <<>> THEN <<>>
  ELSE IF Head(articles).embedding # None
       THEN <<Head(articles)>> \o Embedded(Tail(articles))
       ELSE Embedded(Tail(articles))

\* The add_vectors call add_evidence makes: a vector, a metadata record (told by
\* its 'id') and an id for every article that has an embedding.
EvidenceCall(articles) ==
  LET with == Embedded(articles)
  IN AddCall(1, [i \in DOMAIN with |-> with[i].embedding[1]],
                [i \in DOMAIN with |-> ArticleKey(with[i])],
                [i \in DOMAIN with |-> ArticleKey(with[i])])

\* add_vectors run with nothing interleaved: what it returns and what it leaves.
AddVectorsOn(ix, md, map, a) ==
  IF ~ix.ok \/ ~LengthsMatch(a.vectors, a.metadata) \/ a.dim # ix.d
  THEN [ok |-> FALSE, index |-> ix, metadata |-> md, id_to_idx |-> map]
  ELSE [ok |-> TRUE, index |-> [ix EXCEPT !.vecs = @ \o a.vectors],
        metadata |-> md \o a.metadata,
        id_to_idx |-> RegisterIds(map, a.ids, Len(md))]

NoEvidenceRet == [op |-> "none", articles |-> <<>>, id |-> 0, ok |-> FALSE, found |-> None]

\* add_evidence(articles), by a caller alone on the index: False when no article
\* has an embedding, else what add_vectors returns.
AddEvidence(t, articles) ==
  /\ \A u \in Threads : Ready(u)
  /\ LET a == EvidenceCall(articles)
         r == AddVectorsOn(index, metadata, id_to_idx, a)
     IN IF a.vectors = <<>>
        THEN /\ evidence_ret' = [NoEvidenceRet EXCEPT !.op = "add_evidence", !.articles = articles]
             /\ UNCHANGED <<memVars, suppliedIds, totalAdded>>
        ELSE /\ Len(r.index.vecs) <= MaxVecs
             /\ Len(r.metadata) <= MaxVecs
             /\ index' = r.index
             /\ metadata' = r.metadata
             /\ id_to_idx' = r.id_to_idx
             /\ evidence_ret' = [NoEvidenceRet EXCEPT !.op = "add_evidence",
                                   !.articles = articles, !.ok = r.ok]
             /\ IF addsOnly /\ r.ok
                THEN /\ suppliedIds' = suppliedIds \cup Range(a.ids)
                     /\ totalAdded' = totalAdded + Len(a.vectors)
                ELSE UNCHANGED <<suppliedIds, totalAdded>>
             /\ UNCHANGED dimension
  /\ UNCHANGED <<diskVars, faiss_installed, threadVars, configured, persisted, crashedInSave,
                 tornByCrash, addsOnly, cands, disturbed>>
  /\ UNCHANGED <<cacheVars, embedVars, ingestVars, hybrid_shape, cross_encoder, hybrid_ret, rerank_ret, annotated>>

\* get_evidence_by_id on a given side-table: the record the id is registered for.
EvidenceById(md, map, evidence_id) ==
  IF evidence_id \in DOMAIN map /\ map[evidence_id] < Len(md)
  THEN Some([id |-> evidence_id, record |-> PyIndex(md, map[evidence_id])])
  ELSE None

GetEvidenceById(t, evidence_id) ==
  /\ \A u \in Threads : Ready(u)
  /\ evidence_ret' = [NoEvidenceRet EXCEPT !.op = "get_evidence_by_id", !.id = evidence_id,
                        !.found = EvidenceById(metadata, id_to_idx, evidence_id)]
  /\ UNCHANGED <<indexVars, cacheVars, embedVars, ingestVars, hybrid_shape, cross_encoder, hybrid_ret, rerank_ret,
                 annotated>>

\* ------------------------------------------------- DataIngestionPipeline
\* Articles a source hands to the pipeline: with or without an embedding, with
\* blank content or not.
IngestArticles ==
  {[id |-> Some(c), url |-> u, embedding |-> e, content |-> text] :
     c \in Coords, u \in ArticleUrls, e \in {None, Some(2)}, text \in {"", "x"}}
IngestLists == SeqsOf(IngestArticles, 0..MaxVecs)
IngestSources == {"web_scraper", "fact_check_api"}

\* The web-scraper loop saves a checkpoint after every so many batches.
CheckpointEvery == 5

\* The number of the chunk that starts at offset i.
ChunkAt(i, batch_size) == (i \div batch_size) + 1

\* The loop of _process_article_batch: every article with an embedding, its own
\* or the one encode_text gives for its content; an article encode_text returns
\* None for is left out. Returns the articles and the engine's cache.
RECURSIVE EmbedArticles(_, _, _, _)
EmbedArticles(loaded, cache, articles, outcomes) ==
  IF articles = <<>> THEN [embedded_articles |-> <<>>, cache |-> cache]
  ELSE LET article == Head(articles)
           r == EncodeTextOn(loaded, cache, article.content, TRUE, Head(outcomes))
           rest == EmbedArticles(loaded,
                                 IF article.embedding # None THEN cache ELSE r.cache,
                                 Tail(articles), Tail(outcomes))
       IN IF article.embedding # None
          THEN [rest EXCEPT !.embedded_articles = <<article>> \o @]
          ELSE IF r.result # None
          THEN [rest EXCEPT !.embedded_articles =
                              <<[article EXCEPT !.embedding = r.result]>> \o @]
          ELSE rest

NoIngest == [pc |-> "idle", source |-> "none", articles |-> <<>>, batch_size |-> 1, i |-> 0,
             embedded_articles |-> <<>>, total_processed |-> 0, total_added |-> 0,
             checkpoints |-> 0, sizes |-> <<>>, result |-> "none"]

IngestInit ==
  /\ stop_event = FALSE
  /\ ingest = NoIngest
  /\ stopped_in = None

\* ingest_from_web_scraper / ingest_from_fact_check_api up to the batch loop:
\* an error when the source is not configured (articles = None), an empty
\* report when it gives no article, else the loop begins.
IngestStart(source, batch_size, articles) ==
  /\ ingest.pc = "idle"
  /\ ingest' = IF articles = None
                THEN [NoIngest EXCEPT !.pc = "done", !.source = source, !.result = "error"]
                ELSE IF articles[1] = <<>>
                THEN [NoIngest EXCEPT !.pc = "done", !.source = source, !.result = "empty"]
                ELSE [NoIngest EXCEPT !.pc = "loop", !.source = source,
                                      !.batch_size = batch_size, !.articles = articles[1]]
  /\ UNCHANGED <<indexVars, cacheVars, embedVars, stop_event, stopped_in, hybrid_shape,
                 cross_encoder, hybrid_ret, rerank_ret, evidence_ret, annotated>>

\* The head of the batch loop and the first half of _process_article_batch: the
\* next batch is sliced off and its articles are embedded. The loop condition
\* is the range's alone.
IngestChunkBegin(outcomes) ==
  /\ ingest.pc = "loop"
  /\ ingest.i < Len(ingest.articles)
  /\ LET batch == PySlice(SubSeq(ingest.articles, ingest.i + 1, Len(ingest.articles)),
                          ingest.batch_size)
         r == EmbedArticles(model, embedding_cache, batch, outcomes)
     IN /\ Len(outcomes) = Len(batch)
        /\ \A n \in DOMAIN batch :
             (outcomes[n] = "none") =
               (batch[n].embedding # None \/ ~model \/ Blank(batch[n].content)
                  \/ _get_text_hash(batch[n].content) \in
                       DOMAIN EmbedArticles(model, embedding_cache, SubSeq(batch, 1, n - 1),
                                            SubSeq(outcomes, 1, n - 1)).cache)
        /\ ingest' = [ingest EXCEPT !.pc = "add", !.embedded_articles = r.embedded_articles]
        /\ embedding_cache' = r.cache
  /\ UNCHANGED <<indexVars, cacheVars, model, cache_file, encode_ret, stop_event, stopped_in,
                 hybrid_shape, cross_encoder, hybrid_ret, rerank_ret, evidence_ret, annotated>>

\* The second half of _process_article_batch and the rest of the loop body:
\* add_evidence on the embedded articles, the totals, and in the web-scraper
\* loop the periodic checkpoint.
IngestChunkEnd(written) ==
  /\ ingest.pc = "add"
  /\ \A u \in Threads : Ready(u)
  /\ LET a == EvidenceCall(ingest.embedded_articles)
         r == AddVectorsOn(index, metadata, id_to_idx, a)
         success == a.vectors # <<>> /\ r.ok
         periodic == /\ ingest.source = "web_scraper"
                     /\ (ingest.i + ingest.batch_size) % (ingest.batch_size * CheckpointEvery) = 0
     IN /\ Len(r.index.vecs) <= MaxVecs
        /\ Len(r.metadata) <= MaxVecs
        /\ ~(periodic /\ r.index.ok) => written
        /\ index' = IF a.vectors # <<>> THEN r.index ELSE index
        /\ metadata' = IF a.vectors # <<>> THEN r.metadata ELSE metadata
        /\ id_to_idx' = IF a.vectors # <<>> THEN r.id_to_idx ELSE id_to_idx
        /\ ingest' = [ingest EXCEPT
                        !.pc = "loop",
                        !.i = @ + ingest.batch_size,
                        !.embedded_articles = <<>>,
                        !.total_processed = @ + Len(ingest.embedded_articles),
                        !.total_added = @ + IF success THEN Len(ingest.embedded_articles) ELSE 0,
                        !.checkpoints = @ + IF periodic /\ r.index.ok /\ written THEN 1 ELSE 0,
                        !.sizes = Append(@, Len(metadata'))]
        /\ IF addsOnly /\ success
           THEN /\ suppliedIds' = suppliedIds \cup Range(a.ids)
                /\ totalAdded' = totalAdded + Len(a.vectors)
           ELSE UNCHANGED <<suppliedIds, totalAdded>>
  /\ UNCHANGED <<dimension, diskVars, faiss_installed, threadVars, configured, persisted,
                 crashedInSave, tornByCrash, addsOnly, cands, disturbed>>
  /\ UNCHANGED <<cacheVars, embedVars, stop_event, stopped_in, hybrid_shape, cross_encoder,
                 hybrid_ret, rerank_ret, evidence_ret, annotated>>

\* The loop is over: the final checkpoint and the report.
IngestFinish(written) ==
  /\ ingest.pc = "loop"
  /\ ingest.i >= Len(ingest.articles)
  /\ ~index.ok => written
  /\ ingest' = [ingest EXCEPT !.pc = "done", !.result = "report",
                               !.checkpoints = @ + IF index.ok /\ written THEN 1 ELSE 0]
  /\ UNCHANGED <<indexVars, cacheVars, embedVars, stop_event, stopped_in, hybrid_shape,
                 cross_encoder, hybrid_ret, rerank_ret, evidence_ret, annotated>>

\* stop_ingestion: sets the event and joins the workers, of which there are none.
StopIngestion ==
  /\ stop_event' = TRUE
  /\ stopped_in' = IF ~stop_event /\ ingest.pc = "add"
                    THEN Some(ChunkAt(ingest.i, ingest.batch_size))
                    ELSE stopped_in
  /\ UNCHANGED <<indexVars, cacheVars, embedVars, ingest, hybrid_shape, cross_encoder,
                 hybrid_ret, rerank_ret, evidence_ret, annotated>>

\* ------------------------------------------------------ the specifications
IndexInit ==
  /\ faiss_installed \in BOOLEAN
  /\ dimension = 1
  /\ index = _initialize_faiss(1, faiss_installed)
  /\ metadata = <<>>
  /\ id_to_idx = EmptyMap
  /\ index_file = AbsentFile
  /\ metadata_file = AbsentFile
  /\ pc = [t \in Threads |-> "idle"]
  /\ call = [t \in Threads |-> NoCall]
  /\ loc = [t \in Threads |-> NoLoc]
  /\ ret = [t \in Threads |-> NoRet]
  /\ configured = 1
  /\ persisted = NoPersisted
  /\ crashedInSave = FALSE
  /\ tornByCrash = FALSE
  /\ suppliedIds = {}
  /\ totalAdded = 0
  /\ addsOnly = TRUE
  /\ cands = [t \in Threads |-> {}]
  /\ disturbed = [t \in Threads |-> FALSE]

\* A cache of one configuration, newly constructed.
\* A HybridRetriever after construction: the scorer loaded or not.
RetrieverInit(shapes, scorers) ==
  /\ hybrid_shape \in shapes
  /\ cross_encoder \in scorers
  /\ hybrid_shape = "injected_none" => ~cross_encoder
  /\ hybrid_ret = NoHybridRet
  /\ rerank_ret = NoRerankRet
  /\ evidence_ret = NoEvidenceRet
  /\ annotated = {}
  /\ IngestInit

\* The retrievers beside an engine whose model is loaded and whose cache is new.
HybridInit(shapes, scorers) ==
  RetrieverInit(shapes, scorers) /\ EmbedInit({TRUE}, {EmptyMap})

NoHybrid == HybridInit({"internal"}, {FALSE})

CacheInit(kinds, sizes) ==
  /\ cache_type \in kinds
  /\ max_size \in sizes
  /\ default_ttl \in DefaultTtls
  /\ _cache = <<>>
  /\ cache_ret = NoCacheRet
  /\ now = 0
  /\ l2_cache = <<>>
  /\ stats = NoStats
  /\ mgr = [t \in Threads |-> NoMgr]
  /\ gets_done = 0
  /\ setters = [t \in Threads |-> NoSetter]

vars == <<indexVars, cacheVars, hybridVars>>

Init == IndexInit /\ NoHybrid /\ CacheInit({"memory"}, {MaxSize})

\* One client thread calling add_vectors, search and clear_index with arguments of
\* every shape; every call runs to its end before the next starts.
Next ==
  \/ \E a \in AddInputs : AddIndex(1, a)
  \/ AddMetadata(1)
  \/ AddIds(1)
  \/ \E qdim \in Dims, q \in Coords, k \in TopKs : SearchIndex(1, qdim, q, k)
  \/ SearchFormat(1)
  \/ Clear(1)
  \/ \E d \in Dims : Restart(d)

Spec == Init /\ [][Next]_vars

\* One client thread adding, saving, loading and clearing at one dimension, with
\* writes that may fail and a process that may crash at any statement.
DocAdds(dims, docs) == {AddCall(dm, <<c>>, <<c>>, <<c>>) : dm \in dims, c \in docs}

NextPersist ==
  \/ \E a \in DocAdds({1}, Coords) : AddIndex(1, a)
  \/ AddMetadata(1)
  \/ AddIds(1)
  \/ \E outcome \in WriteOutcomes : SaveIndex(1, outcome)
  \/ \E outcome \in WriteOutcomes : SaveMetadata(1, outcome)
  \/ LoadIndex(1)
  \/ LoadMetadata(1)
  \/ Clear(1)
  \/ Restart(1)

SpecPersist == Init /\ [][NextPersist]_vars

\* One client thread saving and loading, the process being restarted with an
\* index of another dimension over the same files; no write fails.
NextReload ==
  \/ \E a \in DocAdds(Dims, {1}) : AddIndex(1, a)
  \/ AddMetadata(1)
  \/ AddIds(1)
  \/ SaveIndex(1, "ok")
  \/ SaveMetadata(1, "ok")
  \/ LoadIndex(1)
  \/ LoadMetadata(1)
  \/ Clear(1)
  \/ \E d \in Dims : Restart(d)

SpecReload == Init /\ [][NextReload]_vars

\* Two client threads adding to and searching an index that starts empty, their
\* calls interleaving statement by statement.
NextConc ==
  \E t \in Threads :
    \/ \E a \in DocAdds({1}, Coords) : AddIndex(t, a)
    \/ AddMetadata(t)
    \/ AddIds(t)
    \/ \E q \in Coords, k \in TopKs : SearchIndex(t, 1, q, k)
    \/ SearchFormat(t)

SpecConc == Init /\ [][NextConc]_vars

\* A cache of either class and of any max_size, its calls running one after the
\* other, the sweep and the clock running between them.
InitCache == IndexInit /\ NoHybrid /\ faiss_installed /\ CacheInit(CacheTypes, 0..MaxSize)

NextCache ==
  \/ \E key \in CacheKeys, value \in CacheValues : CacheSet(key, value, None)
  \/ \E key \in CacheKeys : CacheGet(key)
  \/ \E key \in CacheKeys : CacheDelete(key)
  \/ CacheClear
  \/ CleanupExpired
  \/ Tick
  \/ \E m \in 0..MaxSize : CacheReopen(m)

SpecCache == InitCache /\ [][NextCache]_vars

\* A cache of either class with max_size >= 1 that is filled, read and overfilled
\* while the clock runs; nothing is deleted or swept.
InitLru == IndexInit /\ NoHybrid /\ faiss_installed /\ CacheInit(CacheTypes, 1..MaxSize)

NextLru ==
  \/ \E key \in CacheKeys : CacheSet(key, 1, None)
  \/ \E key \in CacheKeys : CacheGet(key)
  \/ Tick

SpecLru == InitLru /\ [][NextLru]_vars

\* A cache of either class whose entries are set with every kind of ttl, read
\* and swept while the clock runs.
InitTtl == IndexInit /\ NoHybrid /\ faiss_installed /\ CacheInit(CacheTypes, {MaxSize})

NextTtl ==
  \/ \E key \in {"a", "b"}, ttl \in TtlArgs : CacheSet(key, 1, ttl)
  \/ \E key \in {"a", "b"} : CacheGet(key)
  \/ CleanupExpired
  \/ Tick

SpecTtl == InitTtl /\ [][NextTtl]_vars

\* A cache of either class, so small that a set may evict, whose two keys are
\* set to either value, read and swept while the clock runs.
InitAccess == IndexInit /\ NoHybrid /\ faiss_installed /\ CacheInit(CacheTypes, {1, MaxSize})

NextAccess ==
  \/ \E key \in {"a", "b"}, value \in CacheValues : CacheSet(key, value, None)
  \/ \E key \in {"a", "b"} : CacheGet(key)
  \/ CleanupExpired
  \/ Tick

SpecAccess == InitAccess /\ [][NextAccess]_vars

\* Two threads calling CacheManager.get on one manager over a backend of either
\* class, their calls interleaving statement by statement; keys are set in
\* between.
NextMgrConc ==
  \/ \E key \in {"a", "b"} : CacheSet(key, 1, None)
  \/ \E t \in Threads :
       \/ \E key \in {"a", "b"} : MgrGetCall(t, key)
       \/ MgrGetRead(t)
       \/ MgrGetWrite(t)

SpecMgrConc == InitTtl /\ [][NextMgrConc]_vars

\* One caller of a CacheManager over a backend of any of the three types, each
\* call running to its end before the next starts, while the clock and the sweeps
\* of the backends run.
InitMgr == IndexInit /\ NoHybrid /\ faiss_installed /\ CacheInit(ManagerTypes, {MaxSize})

NextMgr ==
  \/ \E key \in {"a", "b"} : MgrSet(1, key, 1, None)
  \/ \E key \in {"a", "b"} : MgrGetCall(1, key)
  \/ MgrGetRead(1)
  \/ MgrGetWrite(1)
  \/ CleanupExpired
  \/ L2CleanupExpired
  \/ Tick

SpecMgr == InitMgr /\ [][NextMgr]_vars

\* A MultiLevelCache, so small that a set may evict, whose two keys are set to
\* either value, read and deleted while the clock and the sweeps of both tiers
\* run.
InitMl == IndexInit /\ NoHybrid /\ faiss_installed /\ CacheInit({"multi_level"}, {1, MaxSize})

NextMl ==
  \/ \E key \in {"a", "b"}, value \in CacheValues : MlSet(key, value, None)
  \/ \E key \in {"a", "b"} : MlGet(key)
  \/ \E key \in {"a", "b"} : MlDelete(key)
  \/ CleanupExpired
  \/ L2CleanupExpired
  \/ Tick

SpecMl == InitMl /\ [][NextMl]_vars

\* A cache of any of the three types, so small that a set may evict, whose keys
\* are set, read and deleted while the clock and the sweeps run.
InitDelete == IndexInit /\ NoHybrid /\ faiss_installed /\ CacheInit(ManagerTypes, {1, MaxSize})

NextDelete ==
  \/ \E key \in {"a", "b"} : cache_type # "multi_level" /\ CacheSet(key, 1, None)
  \/ \E key \in {"a", "b"} : cache_type # "multi_level" /\ CacheGet(key)
  \/ \E key \in {"a", "b"} : cache_type # "multi_level" /\ CacheDelete(key)
  \/ \E key \in {"a", "b"} : cache_type = "multi_level" /\ MlSet(key, 1, None)
  \/ \E key \in {"a", "b"} : cache_type = "multi_level" /\ MlGet(key)
  \/ \E key \in {"a", "b"} : cache_type = "multi_level" /\ MlDelete(key)
  \/ CleanupExpired
  \/ L2CleanupExpired
  \/ Tick

SpecDelete == InitDelete /\ [][NextDelete]_vars

\* One caller adds documents (vectors with as many metadata records) and queries
\* a HybridRetriever of either class, its scorer loaded or not, over the index.
InitHybrid == IndexInit /\ faiss_installed /\ CacheInit({"memory"}, {MaxSize})
                /\ HybridInit(HybridShapes, BOOLEAN)

HybridAdds == {a \in AddInputs : a.dim = 1 /\ Len(a.metadata) = Len(a.vectors) /\ a.ids = a.vectors}

\* predict is handed at most initial_top_k pairs.
AllPredicts == {NoPredict} \cup UNION {PredictOutcomes(n) : n \in InitialTopKs}

NextHybrid ==
  \/ \E a \in HybridAdds : AddIndex(1, a)
  \/ AddMetadata(1)
  \/ AddIds(1)
  \/ \E e \in Embeddings, k \in InitialTopKs, ms \in MinSimilarities :
       RetrieveEvidence(1, e, k, ms)
  \/ \E e \in Embeddings, ik \in InitialTopKs, fk \in FinalTopKs,
        ms \in MinSimilarities, p \in AllPredicts :
       RetrieveAndRerank(1, e, ik, fk, ms, p)

SpecHybrid == InitHybrid /\ [][NextHybrid]_vars

\* The same caller before a HybridRetriever of any shape, that of reranker.py
\* handed None included, so that every return path of retrieve_and_rerank is taken.
InitRecall == IndexInit /\ faiss_installed /\ CacheInit({"memory"}, {MaxSize})
                /\ HybridInit(InjectedShapes, BOOLEAN)

NextRecall ==
  \/ \E a \in HybridAdds : AddIndex(1, a)
  \/ AddMetadata(1)
  \/ AddIds(1)
  \/ \E e \in Embeddings, ik \in InitialTopKs, fk \in FinalTopKs,
        ms \in MinSimilarities, p \in AllPredicts :
       RetrieveAndRerank(1, e, ik, fk, ms, p)

SpecRecall == InitRecall /\ [][NextRecall]_vars

\* A CrossEncoderReranker, its model loaded or not, reranking a list of passages:
\* rerank keeps nothing from one call to the next, so one call is followed.
InitRerank == IndexInit /\ faiss_installed /\ CacheInit({"memory"}, {MaxSize})
                /\ HybridInit({"injected"}, BOOLEAN)

NextRerank ==
  /\ rerank_ret.op = "none"
  /\ \E ps \in PassageLists, k \in RerankTopKs :
       \E p \in {NoPredict} \cup PredictOutcomes(Len(ps)) : RerankCall(ps, k, p)

SpecRerank == InitRerank /\ [][NextRerank]_vars

\* One caller ingests batches of articles, with and without embeddings, and
\* looks records up by id.
EvidenceIds == Coords \cup ArticleUrls

NextEvidence ==
  \/ \E articles \in ArticleBatches : AddEvidence(1, articles)
  \/ \E id \in EvidenceIds : GetEvidenceById(1, id)

SpecEvidence == InitHybrid /\ [][NextEvidence]_vars

\* One caller ingests articles that have an embedding, clears the corpus, saves
\* it and loads it again, and looks records up by id.
LookupBatches ==
  SeqsOf({article \in Articles : article.embedding = Some(1)}, BatchSizes)

NextLookup ==
  \/ \E articles \in LookupBatches : AddEvidence(1, articles)
  \/ \E id \in EvidenceIds : GetEvidenceById(1, id)
  \/ Clear(1)
  \/ SaveIndex(1, "ok")
  \/ SaveMetadata(1, "ok")
  \/ LoadIndex(1)
  \/ LoadMetadata(1)

SpecLookup == InitHybrid /\ [][NextLookup]_vars

\* One caller adds documents and then queries them in every way: retrieve_evidence,
\* retrieve_and_rerank on either HybridRetriever class, and rerank on its own.
QueryPassages == {<<Passage(1, [num |-> 1, den |-> 2]), Passage(2, [num |-> 1, den |-> 1])>>}

NextQueries ==
  \/ \E a \in HybridAdds : AddIndex(1, a)
  \/ AddMetadata(1)
  \/ AddIds(1)
  \/ \E k \in InitialTopKs : RetrieveEvidence(1, Some(1), k, [num |-> 0, den |-> 1])
  \/ \E ik \in InitialTopKs, fk \in FinalTopKs, p \in AllPredicts :
       RetrieveAndRerank(1, Some(1), ik, fk, [num |-> 0, den |-> 1], p)
  \/ \E ps \in QueryPassages, p \in AllPredicts : RerankCall(ps, Some(1), p)

SpecQueries == InitHybrid /\ [][NextQueries]_vars

\* An engine, its model loaded or not, its cache new or read from the cache
\* file, encoding batches of texts.
InitEmbed == IndexInit /\ faiss_installed /\ CacheInit({"memory"}, {MaxSize})
               /\ RetrieverInit({"internal"}, {FALSE}) /\ EmbedInit(BOOLEAN, LoadedCaches)

NextEmbed ==
  \/ \E texts \in TextBatches, use_cache, saved \in BOOLEAN, outcome \in EncodeOutcomes :
       EncodeBatch(texts, use_cache, outcome, saved)
  \/ \E text \in Texts, use_cache, saved \in BOOLEAN, outcome \in EncodeOutcomes :
       EncodeText(text, use_cache, outcome, saved)

SpecEmbed == InitEmbed /\ [][NextEmbed]_vars

\* A pipeline on an empty index runs one ingestion while stop_ingestion may be
\* called at any moment.
InitIngest == IndexInit /\ CacheInit({"memory"}, {MaxSize})
                /\ RetrieverInit({"internal"}, {FALSE}) /\ EmbedInit(BOOLEAN, LoadedCaches)

NextIngest ==
  \/ \E source \in IngestSources, batch_size \in BatchSizes,
        articles \in {None} \cup {Some(l) : l \in IngestLists} :
       IngestStart(source, batch_size, articles)
  \/ \E outcomes \in SeqsOf(EncodeOutcomes, BatchSizes) : IngestChunkBegin(outcomes)
  \/ \E written \in BOOLEAN : IngestChunkEnd(written)
  \/ \E written \in BOOLEAN : IngestFinish(written)
  \/ StopIngestion

SpecIngest == InitIngest /\ [][NextIngest]_vars

\* A MemoryCache whose two keys are set with every kind of ttl, read and deleted
\* while the clock runs; its cleanup thread, which loops for as long as the
\* process lives, gets to run its sweep again and again.
InitSweep == IndexInit /\ NoHybrid /\ faiss_installed /\ CacheInit({"memory"}, {MaxSize})

NextSweep ==
  \/ \E key \in {"a", "b"}, ttl \in TtlArgs : CacheSet(key, 1, ttl)
  \/ \E key \in {"a", "b"} : CacheGet(key)
  \/ \E key \in {"a", "b"} : CacheDelete(key)
  \/ CleanupExpired
  \/ Tick

SpecSweep == InitSweep /\ [][NextSweep]_vars /\ WF_vars(CleanupExpired)

\* A MultiLevelCache of max_size 2 whose two keys are set with an explicit ttl
\* and read while the clock and the sweeps of both tiers run.
InitMlTtl == IndexInit /\ NoHybrid /\ faiss_installed /\ CacheInit({"multi_level"}, {MaxSize})

NextMlTtl ==
  \/ \E key \in {"a", "b"}, ttl \in {Some(1), Some(2)} : MlSet(key, 1, ttl)
  \/ \E key \in {"a", "b"} : MlGet(key)
  \/ CleanupExpired
  \/ L2CleanupExpired
  \/ Tick

SpecMlTtl == InitMlTtl /\ [][NextMlTtl]_vars

\* Two callers of one SQLiteCache of max_size 1 or 2, each setting keys of its
\* own, their calls interleaving statement by statement.
InitSqlConc == IndexInit /\ NoHybrid /\ faiss_installed /\ CacheInit({"sqlite"}, 1..MaxSize)

SetterKeys(t) == IF t = 1 THEN {"a", "c"} ELSE {"b"}

NextSqlConc ==
  \E t \in Threads :
    \/ \E key \in SetterKeys(t) : SqlSetCount(t, key, 1, None)
    \/ SqlSetWrite(t)

SpecSqlConc == InitSqlConc /\ [][NextSqlConc]_vars

\* ================================================================ claims
Done(t, op) == pc[t] = "done" /\ call[t].op = op
Quiescent == \A t \in Threads : Ready(t)
Queries == Dims \X Coords \X TopKs

\* C1: every position search returns satisfies 0 <= position < len(metadata);
\* the padded slots (position -1) of an under-filled index never reach the caller.
C1_PositionsInBounds ==
  \A t \in Threads : Done(t, "search") =>
    \A i \in DOMAIN ret[t].results :
      ret[t].results[i].position >= 0 /\ ret[t].results[i].position < Len(metadata)

\* C2: a search that ran while only add_vectors calls ran beside it returns what a
\* search would return on the index as it was before, or as it was after, one of
\* those adds.
C2_SearchSeesAddAtomically ==
  \A t \in Threads : (Done(t, "search") /\ ~disturbed[t]) => ret[t].results \in cands[t]

\* C3: whenever no call is under way, the index holds as many vectors as there are
\* metadata records, whether the calls so far succeeded or failed (the process not
\* having crashed inside save_index).
C3_VectorsMatchMetadata ==
  (Quiescent /\ ~tornByCrash) => Len(index.vecs) = Len(metadata)

\* C4: whenever no call is under way, every registered id maps to a position p with
\* 0 <= p < len(metadata).
C4_IdsInBounds ==
  Quiescent => \A x \in DOMAIN id_to_idx : id_to_idx[x] >= 0 /\ id_to_idx[x] < Len(metadata)

\* C5: once interleaved add_vectors calls on a fresh index have all returned True,
\* len(metadata) is the number of vectors added, every supplied id is registered,
\* and its position holds the vector and the metadata supplied with it.
C5_NoLostUpdates ==
  (addsOnly /\ \A t \in Threads : ~Adding(t)) =>
    /\ Len(metadata) = totalAdded
    /\ \A x \in suppliedIds :
         /\ x \in DOMAIN id_to_idx
         /\ PyIndexOK(index.vecs, id_to_idx[x]) /\ PyIndex(index.vecs, id_to_idx[x]) = x
         /\ PyIndexOK(metadata, id_to_idx[x]) /\ PyIndex(metadata, id_to_idx[x]) = x

\* C6: after load_index succeeds on the files a successful save_index left, every
\* search returns the same positions in the same order as it did on the index that
\* was saved, and the id -> position map is the one that was saved.
C6_RoundTrip ==
  \A t \in Threads : (Done(t, "load") /\ ret[t].ok /\ persisted.valid) =>
    /\ \A qr \in Queries :
         SearchOn(index, metadata, qr[1], qr[2], qr[3])
           = SearchOn(persisted.state.index, persisted.state.metadata, qr[1], qr[2], qr[3])
    /\ id_to_idx = persisted.state.id_to_idx

C6_Witness ==
  \E t \in Threads : /\ Done(t, "load") /\ ret[t].ok /\ persisted.valid
                     /\ Len(index.vecs) = 2 /\ index.vecs[1] # index.vecs[2]
                     /\ DOMAIN id_to_idx # {}

\* C7: load_index of files whose recorded dimension is not the dimension the index
\* was constructed with fails and leaves the index, dimension included, as it was.
C7_DimensionMismatchRejected ==
  \A t \in Threads :
    (Done(t, "load") /\ index_file.state = "ok" /\ metadata_file.state = "ok"
       /\ metadata_file.dimension # configured) =>
      ~ret[t].ok /\ dimension = configured /\ index.d = configured

\* C8: after a crash during save_index, load_index yields exactly the snapshot
\* that the last completed save_index had committed.
C8_CrashSafe ==
  \A t \in Threads : (Done(t, "load") /\ crashedInSave /\ persisted.some) =>
    ret[t].ok /\ Snapshot = persisted.state

\* C9: add_vectors with len(vectors) # len(metadata) returns False with an error
\* logged, and leaves the vectors, the metadata list and the id map as they were.
C9_MismatchRejected ==
  [][\A t \in Threads, a \in AddInputs :
       (Len(a.vectors) # Len(a.metadata) /\ AddIndex(t, a)) =>
         /\ pc'[t] = "done" /\ ~ret'[t].ok /\ ret'[t].error # ""
         /\ index' = index /\ metadata' = metadata /\ id_to_idx' = id_to_idx]_vars

C9_Witness ==
  \E t \in Threads :
    /\ Done(t, "add") /\ ~ret[t].ok
    /\ ret[t].error = "Number of vectors must match number of metadata entries"
    /\ Len(metadata) > 0

\* C10: whenever a set has completed, the cache holds at most max_size entries,
\* whatever max_size it was constructed with.
C10_SizeWithinMax ==
  (cache_ret.op = "set" /\ cache_ret.ok) => Len(_cache) <= max_size

\* C11: a set of a new key into a cache that holds max_size entries evicts
\* exactly one key, one whose last_accessed no other entry's precedes, and leaves
\* every other entry as it was; the new key is stored.
C11_StrictLru ==
  [][\A key \in CacheKeys :
       (CacheSet(key, 1, None) /\ key \notin KeysOf(_cache) /\ Len(_cache) = max_size) =>
         \E i \in DOMAIN _cache :
           /\ \A j \in DOMAIN _cache : _cache[i].last_accessed <= _cache[j].last_accessed
           /\ KeysOf(_cache') = (KeysOf(_cache) \ {_cache[i].key}) \cup {key}
           /\ Len(_cache') = Len(_cache)
           /\ \A j \in DOMAIN _cache \ {i} : \E n \in DOMAIN _cache' : _cache'[n] = _cache[j]]_vars

\* An overflowing set has evicted a key that had been read after a younger key
\* was stored: the victim is not the entry stored first.
C11_Witness ==
  /\ cache_ret.op = "set" /\ cache_ret.evicted # None /\ max_size = 2
  /\ Len(_cache) = 2 /\ _cache[1].access_count > 0
  /\ _cache[1].last_accessed > _cache[1].created_at
  /\ _cache[1].created_at < _cache[2].created_at

\* C12: the first get(key) after set(key, value, ttl), made when more than ttl
\* has passed since the set (ttl = 0 included), returns a miss and the key is
\* not stored afterwards.
C12_ElapsedTtlMisses ==
  [][\A key \in CacheKeys :
       (/\ cache_ret.op = "set" /\ cache_ret.key = key /\ cache_ret.ttl # None
        /\ key \in KeysOf(_cache)
        /\ now - _cache[PosOf(_cache, key)].created_at > cache_ret.ttl[1]
        /\ CacheGet(key)) =>
         cache_ret'.value = None /\ key \notin KeysOf(_cache')]_vars

\* C13: set with a zero or negative ttl fails and leaves the cache's contents as
\* they were.
C13_BadTtlRejected ==
  [][\A key \in CacheKeys, value \in CacheValues, ttl \in {tt \in TtlArgs : tt # None /\ tt[1] <= 0} :
       CacheSet(key, value, ttl) => ~cache_ret'.ok /\ _cache' = _cache]_vars

\* C14: set(k, v) stores v with access_count 0; every get(k) of the live entry
\* returns v and adds exactly one to access_count; no other call changes the
\* value or the access_count of an entry that stays stored.
C14_GetsCounted ==
  [][\A key \in CacheKeys :
       /\ \A value \in CacheValues :
            CacheSet(key, value, None) =>
              /\ key \in KeysOf(_cache')
              /\ EntryOf(_cache', key).value = value
              /\ EntryOf(_cache', key).access_count = 0
       /\ (CacheGet(key) /\ Live(_cache, key, now)) =>
              /\ cache_ret'.value = Some(EntryOf(_cache, key).value)
              /\ key \in KeysOf(_cache')
              /\ EntryOf(_cache', key).value = EntryOf(_cache, key).value
              /\ EntryOf(_cache', key).access_count = EntryOf(_cache, key).access_count + 1
       /\ (/\ key \in KeysOf(_cache) /\ key \in KeysOf(_cache')
           /\ ~CacheGet(key)
           /\ \A value \in CacheValues : ~CacheSet(key, value, None)) =>
              /\ EntryOf(_cache', key).value = EntryOf(_cache, key).value
              /\ EntryOf(_cache', key).access_count = EntryOf(_cache, key).access_count]_vars

\* The second get of a key returned its value, and both gets are counted.
C14_Witness ==
  /\ cache_ret.op = "get" /\ cache_ret.value = Some(2)
  /\ cache_ret.key \in KeysOf(_cache)
  /\ EntryOf(_cache, cache_ret.key).access_count = 2
  /\ Len(_cache) = 2

\* C15: once the CacheManager.get calls made so far have all returned, hits +
\* misses + errors is the number of those calls.
C15_NoLostCount ==
  (\A t \in Threads : mgr[t].pc = "idle") =>
    stats.hits + stats.misses + stats.errors = gets_done

\* The backend of the manager holds a live value for key.
HoldsLive(key) ==
  \/ Live(_cache, key, now)
  \/ cache_type = "multi_level" /\ Live(l2_cache, key, now)

\* Every CacheManager.get adds one to exactly one counter, hits when the backend
\* held a live value for the key and misses otherwise.
OneCounterPerGet ==
  \A t \in Threads, key \in CacheKeys :
    /\ MgrGetCall(t, key) => ((mgr'[t].value # None) <=> HoldsLive(key))
    /\ MgrGetWrite(t) =>
         stats' = [stats EXCEPT ![IF mgr[t].value # None THEN "hits" ELSE "misses"] = @ + 1]

C17_TierOneFirst ==
  [][\A key \in CacheKeys :
       MlGet(key) =>
         /\ Live(_cache, key, now) =>
              /\ cache_ret'.value = Some(EntryOf(_cache, key).value)
              /\ l2_cache' = l2_cache
         /\ Live(l2_cache, key, now) =>
              /\ cache_ret'.value = Some(EntryOf(l2_cache, key).value)
              /\ key \in KeysOf(_cache')
              /\ EntryOf(_cache', key).value = EntryOf(l2_cache, key).value]_vars

\* A get has just set the hit of tier 2 in tier 1, which had lost the key.
C17_Witness ==
  /\ cache_ret.op = "get" /\ cache_ret.value # None
  /\ cache_ret.key \in KeysOf(_cache) \cap KeysOf(l2_cache)
  /\ EntryOf(_cache, cache_ret.key).access_count = 0
  /\ EntryOf(l2_cache, cache_ret.key).access_count > 0
  /\ EntryOf(_cache, cache_ret.key).created_at > EntryOf(l2_cache, cache_ret.key).created_at

\* C18: delete(key) returns True exactly when the backend (for the composite:
\* either tier) held the key; the key is held nowhere afterwards, and a get(key)
\* made then is a miss.
C18_DeleteReports ==
  [][\A key \in CacheKeys :
       /\ (cache_type # "multi_level" /\ CacheDelete(key)) =>
            /\ cache_ret'.ok = (key \in KeysOf(_cache))
            /\ key \notin KeysOf(_cache')
            /\ GetOn(_cache', key, now').value = None
       /\ (cache_type = "multi_level" /\ MlDelete(key)) =>
            /\ cache_ret'.ok = (key \in KeysOf(_cache) \cup KeysOf(l2_cache))
            /\ key \notin KeysOf(_cache') \cup KeysOf(l2_cache')
            /\ MlGetOn(_cache', l2_cache', max_size, default_ttl, key, now').value = None]_vars

\* A delete on the composite has returned True while the other key stays in tier 2.
C18_Witness ==
  /\ cache_type = "multi_level" /\ cache_ret.op = "delete" /\ cache_ret.ok
  /\ Len(l2_cache) > 0 /\ cache_ret.key \notin KeysOf(l2_cache)

\* The same records in the same order: the fields retrieve_evidence fills agree.
SameRecords(results, evidence) ==
  /\ Len(results) = Len(evidence)
  /\ \A i \in DOMAIN results :
       /\ results[i].id = evidence[i].id
       /\ results[i].similarity_score = evidence[i].similarity_score
       /\ results[i].faiss_index = evidence[i].faiss_index

TaggedDenseOnly(results) ==
  \A i \in DOMAIN results : results[i].ranking_method = Some("dense_only")

\* C19: with the scorer not loaded, retrieve_and_rerank of either HybridRetriever
\* class returns the first final_top_k records of what retrieve_evidence gave, in
\* that order, each tagged ranking_method = dense_only.
C19_DisabledIsDenseOnly ==
  (hybrid_ret.op = "retrieve_and_rerank" /\ ~cross_encoder) =>
    /\ SameRecords(hybrid_ret.results, PySlice(hybrid_ret.candidates, hybrid_ret.final_top_k))
    /\ TaggedDenseOnly(hybrid_ret.results)

\* C20: when the scorer raised while scoring the candidates, retrieve_and_rerank
\* returns the stage-1 candidates in stage-1 order, tagged dense_only.
C20_ScorerFailureIsDenseOnly ==
  (hybrid_ret.op = "retrieve_and_rerank" /\ hybrid_ret.predict.raised) =>
    /\ SameRecords(hybrid_ret.results, hybrid_ret.candidates)
    /\ TaggedDenseOnly(hybrid_ret.results)

IdsOf(results) == {results[i].id : i \in DOMAIN results}

\* C21: when initial_top_k >= final_top_k, every id retrieve_and_rerank returns is
\* the id of a stage-1 candidate, whichever way the call returned (reranked,
\* dense only, scorer failure, except clause).
C21_RecallContainment ==
  (hybrid_ret.op = "retrieve_and_rerank" /\ hybrid_ret.initial_top_k >= hybrid_ret.final_top_k) =>
    IdsOf(hybrid_ret.results) \subseteq IdsOf(hybrid_ret.candidates)

\* The except clause has returned fewer records than stage 1 found, out of an
\* index where the threshold left a document out.
C21_Witness ==
  /\ hybrid_ret.op = "retrieve_and_rerank" /\ hybrid_shape = "injected_none"
  /\ hybrid_ret.initial_top_k >= hybrid_ret.final_top_k
  /\ hybrid_ret.results # <<>>
  /\ Len(hybrid_ret.candidates) < Len(metadata)

\* C22: of two reranked passages, the one whose similarity_score and rerank_score
\* are both at least the other's has a combined_score at least the other's.
C22_RankingMonotone ==
  \A i, j \in DOMAIN rerank_ret.results :
    LET A == rerank_ret.results[i]
        B == rerank_ret.results[j]
    IN (/\ A.combined_score # None /\ B.combined_score # None
        /\ AtLeast(A.similarity_score, B.similarity_score)
        /\ A.rerank_score[1] >= B.rerank_score[1])
         => A.combined_score[1] >= B.combined_score[1]

\* Two passages were scored: one below the other in both scores and in the combined
\* score, the other held to 1 by the clamp.
C22_Witness ==
  \E i, j \in DOMAIN rerank_ret.results :
    LET A == rerank_ret.results[i]
        B == rerank_ret.results[j]
    IN /\ A.combined_score = Some(100000)
       /\ B.combined_score # None /\ B.combined_score[1] < 100000
       /\ A.rerank_score[1] > B.rerank_score[1]
       /\ ~AtLeast(B.similarity_score, A.similarity_score)

\* C23: with the model loaded and predict returning scores, rerank returns the
\* min(top_k, len(passages)) passages of highest combined_score (all of them when
\* top_k is None), in non-increasing combined_score order, each carrying its
\* rerank_score and combined_score; its length is at most any top_k given, 0 included.
C23_RerankTopK ==
  (rerank_ret.op = "rerank" /\ cross_encoder /\ ~rerank_ret.predict.raised) =>
    LET ps == rerank_ret.passages
        k == rerank_ret.top_k
        res == rerank_ret.results
        combined(id) == _combine_scores(ps[id].similarity_score, rerank_ret.predict.scores[id])
    IN /\ Len(res) = IF k = None \/ k[1] > Len(ps) THEN Len(ps) ELSE k[1]
       /\ \A i \in DOMAIN res :
            /\ res[i].id \in DOMAIN ps
            /\ res[i].rerank_score = Some(rerank_ret.predict.scores[res[i].id])
            /\ res[i].combined_score = Some(combined(res[i].id))
       /\ \A i, j \in DOMAIN res :
            /\ i < j => res[i].combined_score[1] >= res[j].combined_score[1]
            /\ i # j => res[i].id # res[j].id
       /\ \A i \in DOMAIN res, id \in DOMAIN ps \ IdsOf(res) :
            combined(id) <= res[i].combined_score[1]

\* C24: with no model loaded, rerank returns the passages it was handed: the same
\* records in the same order, no field changed and no score added.
C24_UnloadedPassthrough ==
  (rerank_ret.op = "rerank" /\ ~cross_encoder) => rerank_ret.results = rerank_ret.passages

\* Without a model, two passages came back with the less similar one first,
\* although top_k was 1.
C24_Witness ==
  /\ rerank_ret.op = "rerank" /\ ~cross_encoder
  /\ rerank_ret.top_k = Some(1)
  /\ Len(rerank_ret.results) = 2
  /\ ~AtLeast(rerank_ret.results[1].similarity_score, rerank_ret.results[2].similarity_score)
  /\ \A i \in DOMAIN rerank_ret.results :
       rerank_ret.results[i].rerank_score = None /\ rerank_ret.results[i].combined_score = None

\* C25: whichever way retrieve_and_rerank returned, its i-th result carries
\* final_rank = i and a ranking_method.
C25_RankedAndTagged ==
  hybrid_ret.op = "retrieve_and_rerank" =>
    \A i \in DOMAIN hybrid_ret.results :
      /\ hybrid_ret.results[i].final_rank = Some(i)
      /\ hybrid_ret.results[i].ranking_method # None

\* C26: a retrieve_evidence or retrieve_and_rerank call whose query has no
\* embedding, or made while the index holds nothing, returns the empty list.
C26_EmptyNotError ==
  [][(/\ hybrid_ret' # hybrid_ret
      /\ \/ hybrid_ret'.embedding = None
         \/ ~index.ok
         \/ index.vecs = <<>> /\ metadata = <<>>)
       => hybrid_ret'.results = <<>>]_vars

\* retrieve_and_rerank, its scorer loaded, has returned [] for an embedded query
\* and no threshold: the index, which only grows here, holds nothing.
C26_Witness ==
  /\ hybrid_ret.op = "retrieve_and_rerank" /\ hybrid_ret.embedding # None
  /\ hybrid_ret.min_similarity.num = 0 /\ cross_encoder
  /\ hybrid_ret.results = <<>>
  /\ index.ok /\ index.vecs = <<>> /\ metadata = <<>>

\* C27: after add_evidence(records) has returned (the embedding provider being
\* available, so that every record's embedding can be computed), every record of
\* the batch is registered under its id, or its url when it has no id, whether
\* it came with an embedding or without.
C27_MissingEmbeddingsDerived ==
  evidence_ret.op = "add_evidence" =>
    \A i \in DOMAIN evidence_ret.articles :
      ArticleKey(evidence_ret.articles[i]) \in DOMAIN id_to_idx

\* C28: get_evidence_by_id(id) returns the record ingested under id when id is in
\* the id->position map, and not-found when it is not, whatever add_evidence,
\* clear, save and load calls came before.
C28_LookupById ==
  [][\A id \in EvidenceIds :
       GetEvidenceById(1, id) =>
         evidence_ret'.found = IF id \in DOMAIN id_to_idx
                               THEN Some([id |-> id, record |-> id])
                               ELSE None]_vars

\* A lookup has found the second record of a corpus, and the corpus, saved and
\* loaded again since, still gives that answer.
C28_Witness ==
  /\ evidence_ret.op = "get_evidence_by_id" /\ evidence_ret.found # None
  /\ Done(1, "load") /\ ret[1].ok
  /\ evidence_ret.found = EvidenceById(metadata, id_to_idx, evidence_ret.id)
  /\ id_to_idx[evidence_ret.id] = 1

\* C29: a retrieve_evidence, rerank or retrieve_and_rerank call leaves the index's
\* vectors, metadata records and id->position map as they were, and no stored
\* metadata record has a query-time field written into it.
C29_QueriesLeaveIndex ==
  [][(hybrid_ret' # hybrid_ret \/ rerank_ret' # rerank_ret) =>
       /\ index' = index /\ metadata' = metadata /\ id_to_idx' = id_to_idx
       /\ annotated' = {}]_vars

\* Over two stored documents, retrieve_and_rerank has returned two results it
\* wrote final_rank into, those of the dense-only path being stage 1's own objects.
C29_Witness ==
  /\ hybrid_ret.op = "retrieve_and_rerank" /\ ~cross_encoder
  /\ Len(hybrid_ret.results) = 2 /\ Len(metadata) = 2
  /\ hybrid_ret.results[2].final_rank = Some(2)
  /\ rerank_ret.op = "rerank"

\* C30: encode_batch(texts), use_cache left at its default, returns one slot per
\* text: the zero vector for an empty or whitespace text, the cached vector for a
\* cached text, and for any other text the model's vector, or the zero vector
\* when the batch encoding failed (None when there is no model); the model is
\* handed exactly the uncached texts that are not blank.
C30_EncodeBatchSlots ==
  (encode_ret.op = "encode_batch" /\ encode_ret.use_cache) =>
    LET texts == encode_ret.texts
        cached(i) == _get_text_hash(texts[i]) \in DOMAIN encode_ret.before
        left == {i \in DOMAIN texts : ~Blank(texts[i]) /\ ~cached(i)}
    IN /\ Len(encode_ret.results) = Len(texts)
       /\ \A i \in DOMAIN texts :
            encode_ret.results[i] =
              IF Blank(texts[i]) THEN Some(ZeroVector)
              ELSE IF cached(i) THEN Some(encode_ret.before[_get_text_hash(texts[i])])
              ELSE IF ~model THEN None
              ELSE IF encode_ret.outcome = "ok" THEN Some(ModelEncode(texts[i]))
              ELSE Some(ZeroVector)
       /\ Range(encode_ret.invoked) \subseteq {texts[i] : i \in left}

\* C40: whatever encode_text and encode_batch calls were made, every key of the
\* embedding cache is the hash of a text with content and maps to the vector
\* the model gives that text, or to the vector the cache file held for it at
\* construction: never to the zero vector of a blank text or a failed batch.
C40_CacheHoldsModelVectors ==
  \A h \in DOMAIN embedding_cache :
    /\ embedding_cache[h] # ZeroVector
    /\ \E text \in Texts :
         /\ ~Blank(text)
         /\ h = _get_text_hash(text)
         /\ \/ embedding_cache[h] = ModelEncode(text)
            \/ \E c \in LoadedCaches : h \in DOMAIN c /\ c[h] = embedding_cache[h]

\* A batch whose encoding failed returned a zero vector for a text with content,
\* beside a blank text, while the cache holds a vector made by an earlier call.
C40_Witness ==
  /\ encode_ret.op = "encode_batch"
  /\ encode_ret.use_cache
  /\ encode_ret.outcome = "raises"
  /\ \E i, j \in DOMAIN encode_ret.texts :
       /\ Blank(encode_ret.texts[i])
       /\ ~Blank(encode_ret.texts[j])
       /\ encode_ret.results[j] = Some(ZeroVector)
  /\ _get_text_hash("y") \in DOMAIN embedding_cache

\* C31: once stop_ingestion has been called while the run was processing chunk
\* k, the run starts no chunk after k, and when it has terminated the index
\* holds exactly what it held when chunk k was finished.
C31_StopsBetweenChunks ==
  stopped_in # None =>
    /\ ingest.pc = "add" => ChunkAt(ingest.i, ingest.batch_size) <= stopped_in[1]
    /\ Len(ingest.sizes) <= stopped_in[1]
    /\ ingest.pc = "done" => Len(metadata) = ingest.sizes[stopped_in[1]]

\* What clear_index leaves, whatever it started from: no vector, no metadata, no
\* registered id, the dimension it had, and nothing for any search to return.
ClearedEmpty ==
  /\ index'.vecs = <<>> /\ metadata' = <<>> /\ id_to_idx' = EmptyMap
  /\ dimension' = dimension
  /\ \A qdim \in Dims, q \in Coords, k \in TopKs :
       SearchOn(index', metadata', qdim, q, k) = <<>>

\* Every well-formed add of vectors of the index's dimension is accepted.
AddsAccepted ==
  \A a \in AddInputs :
    (a.dim = dimension' /\ LengthsMatch(a.vectors, a.metadata)) =>
      AddVectorsOn(index', metadata', id_to_idx', a).ok

\* C32 as stated: clear_index on an index in any state leaves it empty with its
\* dimension unchanged, and a subsequent add of vectors of that dimension succeeds.
C32_ClearThenAdd ==
  [][(\E t \in Threads : Clear(t)) => (ClearedEmpty /\ AddsAccepted)]_vars

\* C32, amended: clear_index on an index in any state leaves it empty with its
\* dimension unchanged; when the faiss index exists, the cleared index is a new
\* one built for that dimension and a subsequent add of vectors of that
\* dimension succeeds; when it is None it stays None.
C32_ClearKeepsShape ==
  [][(\E t \in Threads : Clear(t)) =>
       /\ ClearedEmpty
       /\ index'.ok = index.ok
       /\ index.ok => (index'.d = dimension /\ AddsAccepted)]_vars

\* clear_index has just returned on a faiss index of dimension 2 that is empty,
\* while the files still hold what the index held when it was saved.
C32_Witness ==
  /\ pc[1] = "done" /\ call[1].op = "clear"
  /\ index.ok /\ index.vecs = <<>> /\ index.d = 2 /\ dimension = 2
  /\ index_file.state = "ok" /\ index_file.vecs # <<>>

\* C33: a get of a key whose entry has now - created_at > ttl_seconds returns
\* None and deletes the entry, so the cache holds one entry less; a get that
\* returns a value returns that of an entry that has not expired.
C33_LazyExpiry ==
  [][\A key \in CacheKeys :
       CacheGet(key) =>
         /\ (key \in KeysOf(_cache)
               /\ now - EntryOf(_cache, key).created_at > EntryOf(_cache, key).ttl_seconds) =>
              /\ cache_ret'.value = None
              /\ key \notin KeysOf(_cache')
              /\ Len(_cache') = Len(_cache) - 1
         /\ cache_ret'.value # None =>
              /\ key \in KeysOf(_cache)
              /\ now - EntryOf(_cache, key).created_at <= EntryOf(_cache, key).ttl_seconds
              /\ cache_ret'.value = Some(EntryOf(_cache, key).value)]_vars

\* A get has just found its entry expired and returned None; the key is gone
\* while the other key, set with a longer ttl, is still held.
C33_Witness ==
  /\ cache_ret.op = "get" /\ cache_ret.expired /\ cache_ret.value = None
  /\ cache_ret.key \notin KeysOf(_cache)
  /\ Len(_cache) = 1 /\ ~is_expired(_cache[1], now)

\* The cache holds an entry for key that has expired.
HoldsExpired(key) ==
  /\ key \in KeysOf(_cache)
  /\ now - EntryOf(_cache, key).created_at > EntryOf(_cache, key).ttl_seconds

\* C34: with the sweep of the MemoryCache weakly fair, an expired entry is
\* eventually removed whether or not it is accessed again; and a sweep, run
\* between get, set and delete calls, removes exactly the entries that are
\* expired when it runs and leaves every other entry as it was, its value,
\* access_count and last_accessed included.
C34_SweepRemovesExpired ==
  /\ \A key \in CacheKeys : HoldsExpired(key) ~> ~HoldsExpired(key)
  /\ [][CleanupExpired =>
          /\ \A key \in KeysOf(_cache) :
               IF HoldsExpired(key) THEN key \notin KeysOf(_cache')
               ELSE /\ key \in KeysOf(_cache')
                    /\ EntryOf(_cache', key) = EntryOf(_cache, key)
          /\ KeysOf(_cache') \subseteq KeysOf(_cache)]_vars

\* The last call was set("a", ...), key "a" is no longer held, which only the
\* sweep can have done, and key "b", read before, is held unexpired.
C34_Witness ==
  /\ cache_type = "memory"
  /\ cache_ret.op = "set" /\ cache_ret.key = "a" /\ "a" \notin KeysOf(_cache)
  /\ "b" \in KeysOf(_cache) /\ ~HoldsExpired("b")
  /\ EntryOf(_cache, "b").access_count > 0

\* C35: a get through the composite, issued more than t after the last
\* set(key, value, ttl = t) of its key, is a miss.  Only the composite's set
\* writes tier 2, so while tier 2 holds a row for the key, the row's created_at
\* and ttl_seconds are the time and the ttl of that last set.
C35_CompositeHonoursTtl ==
  [][\A key \in CacheKeys :
       (/\ MlGet(key)
        /\ key \in KeysOf(l2_cache)
        /\ now - EntryOf(l2_cache, key).created_at > EntryOf(l2_cache, key).ttl_seconds)
         => cache_ret'.value = None]_vars

\* C36: retrieve_and_rerank returns at most final_top_k results, whatever
\* final_top_k >= 0, however many candidates stage 1 found, and whether the
\* scorer is loaded, is not loaded, or raises while scoring.
C36_AtMostFinalTopK ==
  hybrid_ret.op = "retrieve_and_rerank" =>
    Len(hybrid_ret.results) <= hybrid_ret.final_top_k

\* C37: when the set calls that concurrent callers made on a SQLiteCache, each on
\* keys of its own, have all returned, the table holds at most max_size rows.
C37_ConcurrentSetsBounded ==
  (cache_type = "sqlite" /\ \A t \in Threads : setters[t].pc = "done") =>
    Len(_cache) <= max_size

\* C38: a set of a key the cache already holds, at any fill level, leaves the
\* set of stored keys as it was and every other key's value unchanged.
C38_OverwriteEvictsNothing ==
  [][\A key \in CacheKeys, value \in CacheValues :
       (CacheSet(key, value, None) /\ key \in KeysOf(_cache)) =>
         /\ KeysOf(_cache') = KeysOf(_cache)
         /\ \A other \in KeysOf(_cache) \ {key} :
              EntryOf(_cache', other).value = EntryOf(_cache, other).value]_vars

\* C39: a load_index that returns False (a file missing, the index blob or the
\* side-table unreadable) leaves the vectors, the metadata list, the id map and
\* the dimension as they were before the call.  The call has two steps; one
\* whose side-table is unreadable is going to return False, so neither the step
\* that returns False nor the step before it may change what is in memory.
C39_FailedLoadLeavesIndex ==
  [][\A t \in Threads :
       /\ ((LoadIndex(t) \/ LoadMetadata(t)) /\ pc'[t] = "done" /\ ~ret'[t].ok)
            => memVars' = memVars
       /\ (LoadIndex(t) /\ pc'[t] = "load_meta" /\ metadata_file.state # "ok")
            => memVars' = memVars]_vars

====
